---- MODULE Spec2Model ----
(***************************************************************************)
(* A model of tar-async's streaming decoder:                               *)
(*   decode/pax.rs   PaxDecoder (length-prefixed PAX records)              *)
(*   decode/raw.rs   RawTarStream (512-byte framing of a chunked source)   *)
(*   decode/flat.rs  EntryStream (GNU long name / PAX coalescing)          *)
(*   decode/full.rs  DeepTarStream / Entry (nested streams, shared state)  *)
(* Bytes are integers 0..255.  A `Bytes` value handed out by the byte      *)
(* source is a slice [lo, hi) of the archive (zero-copy sub-slices);       *)
(* copied buffers (BytesMut, Vec<u8>) are sequences of byte values.        *)
(***************************************************************************)
EXTENDS Integers, Sequences, FiniteSets, TLC

(***************************************************************************)
(* Bounds of the model.                                                    *)
(***************************************************************************)
\* u64 arithmetic is done modulo WordMod (it stands for 2^64: TLC's integers
\* are 32 bits wide); the sizes of the modelled archives are far below it.
WordMod == 2000000016
\* `as u32` truncates modulo Word32Mod (it stands for 2^32); as in the code,
\* 10^9 < Word32Mod < WordMod.
Word32Mod == 1500000000

(***************************************************************************)
(* Byte values (ASCII) used by the code.                                   *)
(***************************************************************************)
NUL == 0
LF == 10
SP == 32
DOT == 46
CH0 == 48
CH9 == 57
EQ == 61

\* b"path", b"linkpath", ... of PaxAttributes::decode_record
K_path == <<112, 97, 116, 104>>
K_linkpath == <<108, 105, 110, 107, 112, 97, 116, 104>>
K_mtime == <<109, 116, 105, 109, 101>>
K_ctime == <<99, 116, 105, 109, 101>>
K_atime == <<97, 116, 105, 109, 101>>
K_size == <<115, 105, 122, 101>>
K_uid == <<117, 105, 100>>
K_gid == <<103, 105, 100>>
K_uname == <<117, 110, 97, 109, 101>>
K_gname == <<103, 110, 97, 109, 101>>

None == [none |-> TRUE]
Some(v) == [none |-> FALSE, v |-> v]
IsSome(o) == ~o.none

\* s[from..to) with 0-based offsets, as Rust's &s[from..to]
Sub(s, from, to) == [i \in 1..(to - from) |-> s[from + i]]

(***************************************************************************)
(* std::str::from_utf8: well-formedness of a byte sequence.  Lead bytes    *)
(* 0xC2..0xDF take one continuation byte, 0xE0..0xEF two, 0xF0..0xF4       *)
(* three; continuation bytes are 0x80..0xBF.                               *)
(***************************************************************************)
IsCont(b) == b >= 128 /\ b <= 191

Utf8Need(b) ==
    IF b < 128 THEN 0
    ELSE IF b >= 194 /\ b <= 223 THEN 1
    ELSE IF b >= 224 /\ b <= 239 THEN 2
    ELSE IF b >= 240 /\ b <= 244 THEN 3
    ELSE -1

RECURSIVE Utf8From(_, _)
Utf8From(s, i) ==
    IF i > Len(s) THEN TRUE
    ELSE LET n == Utf8Need(s[i]) IN
         /\ n >= 0
         /\ i + n <= Len(s)
         /\ \A j \in 1..n : IsCont(s[i + j])
         /\ Utf8From(s, i + n + 1)

IsUtf8(s) == Utf8From(s, 1)

(***************************************************************************)
(* decode/time.rs                                                          *)
(***************************************************************************)
Ok(v) == [ok |-> TRUE, v |-> v]
Err(e) == [ok |-> FALSE, err |-> e]

\* (value[i] as char).is_whitespace(): U+0009..U+000D, U+0020, U+0085, U+00A0
IsWhitespace(b) == b \in {9, 10, 11, 12, 13, SP, 133, 160}

IsDigit(b) == b >= CH0 /\ b <= CH9

\* while i < value.len() && is_whitespace(value[i]) { i += 1 }
RECURSIVE SkipSpaces(_, _)
SkipSpaces(value, i) ==
    IF i < Len(value) /\ IsWhitespace(value[i + 1])
    THEN SkipSpaces(value, i + 1)
    ELSE i

\* the digit loops of parse_from: u.checked_mul(10)?.checked_add(digit)?
\* n counts the digits read (ds of the fractional loop)
RECURSIVE DigitLoop(_, _, _, _)
DigitLoop(value, i, u, n) ==
    IF i < Len(value) /\ IsDigit(value[i + 1])
    THEN IF u > (WordMod - 1) \div 10 \/ u * 10 > WordMod - 1 - (value[i + 1] - CH0)
         THEN Err("Overflow")
         ELSE DigitLoop(value, i + 1, u * 10 + (value[i + 1] - CH0), n + 1)
    ELSE Ok([i |-> i, u |-> u, n |-> n])

\* while ds < 9 { d *= 10; ds += 1 }
RECURSIVE PadNanos(_, _)
PadNanos(d, ds) ==
    IF ds < 9 THEN PadNanos((d * 10) % WordMod, ds + 1) ELSE d

FileTime(secs, nanos) == <<secs, nanos>>

parse_from(value) ==
    LET int == DigitLoop(value, SkipSpaces(value, 0), 0, 0) IN
    IF ~int.ok THEN int
    ELSE IF int.v.i < Len(value) /\ value[int.v.i + 1] = DOT
    THEN LET frac == DigitLoop(value, int.v.i + 1, 0, 1) IN
         IF ~frac.ok THEN frac
         ELSE IF frac.v.i # Len(value) THEN Err("InvalidChar")
         ELSE Ok(FileTime(int.v.u, PadNanos(frac.v.u, frac.v.n) % Word32Mod))
    ELSE Ok(FileTime(int.v.u, 0))

(***************************************************************************)
(* decode/pax.rs                                                           *)
(***************************************************************************)
\* PaxAttributes::default()
NoAttributes ==
    [path |-> None, link_path |-> None, atime |-> None, ctime |-> None,
     mtime |-> None, uid |-> None, uname |-> None, gid |-> None,
     gname |-> None, size |-> None]

\* bytes.iter().position(|it| *it == sep): 0-based, -1 when absent
RECURSIVE PositionFrom(_, _, _)
PositionFrom(bytes, sep, i) ==
    IF i >= Len(bytes) THEN -1
    ELSE IF bytes[i + 1] = sep THEN i
    ELSE PositionFrom(bytes, sep, i + 1)

\* cut_sep: (bytes[..position], bytes[position..]); the tail keeps the separator
cut_sep(bytes, sep) ==
    LET position == PositionFrom(bytes, sep, 0) IN
    IF position < 0 THEN None
    ELSE Some(<<Sub(bytes, 0, position), Sub(bytes, position, Len(bytes))>>)

\* <u64 as FromStr>::from_str: an optional '+', then one or more digits
RECURSIVE U64Digits(_, _, _)
U64Digits(s, i, u) ==
    IF i >= Len(s) THEN Ok(u)
    ELSE IF ~IsDigit(s[i + 1]) THEN Err("InvalidDigit")
    ELSE IF u > (WordMod - 1) \div 10 \/ u * 10 > WordMod - 1 - (s[i + 1] - CH0)
    THEN Err("PosOverflow")
    ELSE U64Digits(s, i + 1, u * 10 + (s[i + 1] - CH0))

u64_from_str(s) ==
    LET digits == IF Len(s) > 0 /\ s[1] = 43 THEN Tail(s) ELSE s IN
    IF Len(digits) = 0 THEN Err("Empty") ELSE U64Digits(digits, 0, 0)

\* parse_str::<T>: both failures are reported as ExpectedUtf8
parse_str_u64(bytes) ==
    IF ~IsUtf8(bytes) THEN Err("ExpectedUtf8")
    ELSE IF ~u64_from_str(bytes).ok THEN Err("ExpectedUtf8")
    ELSE u64_from_str(bytes)

parse_str_time(bytes) ==
    IF ~IsUtf8(bytes) THEN Err("ExpectedUtf8")
    ELSE IF ~parse_from(bytes).ok THEN Err("ExpectedUtf8")
    ELSE parse_from(bytes)

\* parse_size: val.checked_mul(10)? + digit; the addition is unchecked, so it
\* panics in a debug build and wraps in a release build
RECURSIVE parse_size_from(_, _, _, _)
parse_size_from(bytes, i, val, build) ==
    IF i >= Len(bytes) THEN Ok(val)
    ELSE IF ~IsDigit(bytes[i + 1]) THEN Err("InvalidSizeChar")
    ELSE IF val > (WordMod - 1) \div 10 THEN Err("Overflow")
    ELSE IF val * 10 + (bytes[i + 1] - CH0) >= WordMod /\ build = "debug"
    THEN Err("Panic")
    ELSE parse_size_from(bytes, i + 1,
                         (val * 10 + (bytes[i + 1] - CH0)) % WordMod, build)

parse_size(bytes, build) == parse_size_from(bytes, 0, 0, build)

\* cut_record: Ok(None) when the record is not complete yet,
\* Ok(Some((record_size, record, tail))) otherwise
cut_record(bytes, build) ==
    LET cut == cut_sep(bytes, SP) IN
    IF cut.none THEN Ok(None)
    ELSE LET size_bytes == cut.v[1]
             tail_bytes == cut.v[2]
             record_size == parse_size(size_bytes, build)
         IN
         IF ~record_size.ok THEN record_size
         ELSE IF record_size.v < Len(size_bytes) THEN Ok(None)
         ELSE LET size == record_size.v - Len(size_bytes) IN
              IF Len(tail_bytes) >= size
              THEN \* tail_bytes[size - 1]: size = 0 underflows or indexes out of range
                   IF size = 0 THEN Err("Panic")
                   ELSE IF tail_bytes[size] # LF THEN Err("ExpectedEol")
                   ELSE Ok(Some(<<record_size.v,
                                  Sub(tail_bytes, 1, size - 1),
                                  Sub(tail_bytes, size, Len(tail_bytes))>>))
              ELSE Ok(None)

UnknownKeyRejected(attributes) == Err("ExpectedEq")

\* the arm `_ => return Ok(())` of the match on the key
UnknownKey(attributes) == Ok(attributes)

\* the match of PaxAttributes::decode_record on the key
ApplyRecord(attributes, key, val) ==
    LET num == parse_str_u64(val)
        time == parse_str_time(val)
    IN
    IF key = K_path THEN Ok([attributes EXCEPT !.path = Some(val)])
    ELSE IF key = K_linkpath THEN Ok([attributes EXCEPT !.link_path = Some(val)])
    ELSE IF key = K_mtime
    THEN IF time.ok THEN Ok([attributes EXCEPT !.mtime = Some(time.v)]) ELSE time
    ELSE IF key = K_ctime
    THEN IF time.ok THEN Ok([attributes EXCEPT !.ctime = Some(time.v)]) ELSE time
    ELSE IF key = K_atime
    THEN IF time.ok THEN Ok([attributes EXCEPT !.atime = Some(time.v)]) ELSE time
    ELSE IF key = K_size
    THEN IF num.ok THEN Ok([attributes EXCEPT !.size = Some(num.v)]) ELSE num
    ELSE IF key = K_uid
    THEN IF num.ok THEN Ok([attributes EXCEPT !.uid = Some(num.v)]) ELSE num
    ELSE IF key = K_gid
    THEN IF num.ok THEN Ok([attributes EXCEPT !.gid = Some(num.v)]) ELSE num
    ELSE IF key = K_uname THEN Ok([attributes EXCEPT !.uname = Some(val)])
    ELSE IF key = K_gname THEN Ok([attributes EXCEPT !.gname = Some(val)])
    ELSE UnknownKey(attributes)

\* PaxAttributes::decode_record; the eprintln! unwraps from_utf8(record)
decode_record(attributes, record) ==
    IF ~IsUtf8(record) THEN Err("Panic")
    ELSE LET cut == cut_sep(record, EQ) IN
         IF cut.none THEN Err("ExpectedEq")
         ELSE ApplyRecord(attributes, cut.v[1], Tail(cut.v[2]))

\* PaxDecoder::new()
NewPaxDecoder == [attributes |-> NoAttributes, buffer |-> <<>>, adv |-> 0]

\* the loop of PaxDecoder::decode over bb; the decoder keeps what was applied
\* before a failing record
RECURSIVE DecodeLoop(_, _, _)
DecodeLoop(dec, bb, build) ==
    LET cut == cut_record(bb, build) IN
    IF ~cut.ok THEN [dec |-> dec, res |-> cut.err]
    ELSE IF cut.v.none THEN [dec |-> dec, res |-> "Ok"]
    ELSE LET applied == decode_record(dec.attributes, cut.v.v[2]) IN
         IF ~applied.ok THEN [dec |-> dec, res |-> applied.err]
         ELSE DecodeLoop([dec EXCEPT !.attributes = applied.v,
                                     !.adv = dec.adv + cut.v.v[1]],
                         cut.v.v[3], build)

\* PaxDecoder::decode(bytes): res is "Ok", a ParseError or "Panic".  Both
\* eprintln! calls unwrap from_utf8 of the whole buffer.
decode(dec, bytes, build) ==
    LET advanced == Sub(dec.buffer, dec.adv, Len(dec.buffer))
        d1 == IF dec.adv > 0
              THEN [dec EXCEPT !.buffer = advanced, !.adv = 0]
              ELSE dec
        d2 == [d1 EXCEPT !.buffer = d1.buffer \o bytes]
    IN
    IF dec.adv > 0 /\ ~IsUtf8(d1.buffer) THEN [dec |-> d1, res |-> "Panic"]
    ELSE IF ~IsUtf8(d2.buffer) THEN [dec |-> d2, res |-> "Panic"]
    ELSE DecodeLoop(d2, d2.buffer, build)

\* PaxDecoder::into_attr
into_attr(dec) == dec.attributes

(***************************************************************************)
(* The archive and the byte source.                                        *)
(* An archive is a sequence of 512-byte blocks cut at `len` bytes.  A      *)
(* header block is given by the fields the tar crate's accessors return,   *)
(* a data block by its leading bytes (the rest of the block is zero).       *)
(***************************************************************************)
HEADER_SIZE == 512

VARIABLES
    archive,    \* [blocks, len]: the bytes the source will deliver
    build,      \* "debug" or "release": what an arithmetic overflow does
    upstream,   \* the byte source: [pos, avail, eof]
    raw,        \* RawTarStream: [buffer, tail, in_entry_raw, in_entry]
    flat,       \* EntryStream: [buffer, attributes, state, decoder]
    deep,       \* DeepTarStreamInner: [position, bytes]
    handles,    \* the Entry values alive, by epoch
    log,        \* history: what each layer has emitted so far
    pax,        \* a PaxDecoder driven on its own: [input, rest, dec, res]
    time,       \* parse_from called on its own: [value, res]
    lock        \* the Mutex around DeepTarStreamInner: [holder, pc, call, ret]

vars == <<archive, build, upstream, raw, flat, deep, handles, log, pax, time, lock>>

Slice(lo, hi) == [lo |-> lo, hi |-> hi]
SLen(b) == b.hi - b.lo

BlockAt(a, off) == a.blocks[(off \div HEADER_SIZE) + 1]

\* the byte at an offset of the archive
ByteAt(a, off) ==
    LET blk == BlockAt(a, off)
        i == off % HEADER_SIZE
    IN
    IF blk.k = "data" /\ i < Len(blk.data) THEN blk.data[i + 1]
    ELSE IF blk.k = "hdr" /\ i < Len(blk.name) THEN blk.name[i + 1]
    ELSE 0

\* the bytes of a slice, as they are copied by BufMut::put
SliceBytes(a, b) == [i \in 1..SLen(b) |-> ByteAt(a, b.lo + i - 1)]

\* BytesMut::put on a buffer kept as the list of the slices copied into it
Put(buffer, b) ==
    IF SLen(b) = 0 THEN buffer
    ELSE IF Len(buffer) > 0 /\ buffer[Len(buffer)].hi = b.lo
    THEN [buffer EXCEPT ![Len(buffer)] = Slice(buffer[Len(buffer)].lo, b.hi)]
    ELSE Append(buffer, b)

RECURSIVE BufLen(_)
BufLen(buffer) ==
    IF buffer = <<>> THEN 0 ELSE SLen(Head(buffer)) + BufLen(Tail(buffer))

\* tar::Header over the 512 bytes copied into it: the block they spell, or a
\* header of unrelated bytes when they are not one block of the archive
Garbage == [k |-> "garbage"]

HeaderOf(a, bytes) ==
    IF /\ Len(bytes) = 1
       /\ SLen(bytes[1]) = HEADER_SIZE
       /\ bytes[1].lo % HEADER_SIZE = 0
       /\ BlockAt(a, bytes[1].lo).k \in {"hdr", "zero"}
    THEN [BlockAt(a, bytes[1].lo) EXCEPT !.at = bytes[1].lo]
    ELSE Garbage

\* header.as_bytes().iter().all(|i| *i == 0)
AllZero(header) == header.k = "zero"

\* Header::entry_size / Header::size: the octal size field
entry_size(header) ==
    IF header.k = "hdr" /\ header.size >= 0 THEN Ok(header.size) ELSE Err("IoError")

(***************************************************************************)
(* Poll results (futures 0.1): Ok(Async::NotReady), Ok(Async::Ready(x)),   *)
(* Err(e), or a panic unwinding out of the poll.                           *)
(***************************************************************************)
NotReady == [t |-> "NotReady"]
Ready(x) == [t |-> "Ready", x |-> x]
Fail(e) == [t |-> "Err", e |-> e]
Panic == [t |-> "Panic"]

IsItem(r) == r.t = "Ready" /\ ~r.x.none
IsEnd(r) == r.t = "Ready" /\ r.x.none

\* RawTarItem
RHeader(h) == [i |-> "Header", header |-> h]
REmptyHeader == [i |-> "EmptyHeader"]
RChunk(b) == [i |-> "Chunk", bytes |-> b]

\* the byte source's poll: a chunk that has arrived, the end, or not ready
UpstreamPoll(s) ==
    IF s.upstream.avail # <<>>
    THEN [s |-> [s EXCEPT !.upstream.avail = Tail(@)],
          r |-> Ready(Some(Head(s.upstream.avail)))]
    ELSE IF s.upstream.eof THEN [s |-> s, r |-> Ready(None)]
    ELSE [s |-> s, r |-> NotReady]

(***************************************************************************)
(* decode/raw.rs: RawTarStream                                             *)
(***************************************************************************)
\* RawTarStream::new
NewRaw == [buffer |-> <<>>, tail |-> None, in_entry_raw |-> 0, in_entry |-> 0]

\* the two arms of fetch_entry_bytes on the bytes at hand: all of them when
\* they fit in in_entry, else split_to(in_entry) with the rest kept as tail
CutEntryBytes(s, bytes) ==
    IF SLen(bytes) <= s.raw.in_entry
    THEN [s |-> [s EXCEPT !.raw.in_entry = @ - SLen(bytes), !.raw.tail = None],
          r |-> Ready(Some(bytes))]
    ELSE [s |-> [s EXCEPT !.raw.in_entry = 0,
                          !.raw.tail = Some(Slice(bytes.lo + s.raw.in_entry, bytes.hi))],
          r |-> Ready(Some(Slice(bytes.lo, bytes.lo + s.raw.in_entry)))]

\* the arm of fetch_entry_bytes without a tail, on what the upstream's poll gave
EntryBytesFrom(up) ==
    IF up.r.t # "Ready" THEN up
    ELSE IF IsSome(up.r.x) THEN CutEntryBytes(up.s, up.r.x.v)
    ELSE IF up.s.raw.in_entry = 0 THEN [s |-> up.s, r |-> Ready(None)]
    ELSE [s |-> up.s, r |-> Fail("UnexpectedEof")]

fetch_entry_bytes(s) ==
    IF IsSome(s.raw.tail)
    THEN CutEntryBytes(s, s.raw.tail.v)
    ELSE EntryBytesFrom(UpstreamPoll(s))

\* the loop of fetch_header
RECURSIVE FetchHeaderLoop(_)

\* the arm of the loop taken with a tail at hand, have bytes being in the buffer
HeaderFromTail(s, tail, have) ==
    IF SLen(tail) + have >= HEADER_SIZE
    THEN [s |-> [s EXCEPT !.raw.buffer = <<>>,
                          !.raw.tail = Some(Slice(tail.lo + (HEADER_SIZE - have), tail.hi))],
          r |-> Ready(Some(HeaderOf(s.archive,
                   Put(s.raw.buffer, Slice(tail.lo, tail.lo + (HEADER_SIZE - have))))))]
    ELSE FetchHeaderLoop([s EXCEPT !.raw.buffer = Put(@, tail), !.raw.tail = None])

\* the arm without a tail reporting the end of the stream whatever is buffered
HeaderFromUpstreamLax(up) ==
    IF up.r.t # "Ready" THEN up
    ELSE IF IsSome(up.r.x)
    THEN FetchHeaderLoop([up.s EXCEPT !.raw.tail = Some(up.r.x.v)])
    ELSE [s |-> up.s, r |-> Ready(None)]

\* the arm without a tail forgetting the bytes buffered when the upstream is
\* not ready
HeaderFromUpstreamForget(up) ==
    IF up.r.t = "NotReady" THEN [up EXCEPT !.s.raw.buffer = <<>>]
    ELSE IF up.r.t # "Ready" THEN up
    ELSE IF IsSome(up.r.x)
    THEN FetchHeaderLoop([up.s EXCEPT !.raw.tail = Some(up.r.x.v)])
    ELSE IF up.s.raw.buffer = <<>> THEN [s |-> up.s, r |-> Ready(None)]
    ELSE [s |-> up.s, r |-> Fail("UnexpectedEof")]

\* the arm of the loop without a tail, on what the upstream's poll gave
HeaderFromUpstream(up) ==
    IF up.r.t # "Ready" THEN up
    ELSE IF IsSome(up.r.x)
    THEN FetchHeaderLoop([up.s EXCEPT !.raw.tail = Some(up.r.x.v)])
    ELSE IF up.s.raw.buffer = <<>> THEN [s |-> up.s, r |-> Ready(None)]
    ELSE [s |-> up.s, r |-> Fail("UnexpectedEof")]

FetchHeaderLoop(s) ==
    IF IsSome(s.raw.tail)
    THEN HeaderFromTail(s, s.raw.tail.v, BufLen(s.raw.buffer))
    ELSE HeaderFromUpstream(UpstreamPoll(s))

\* fetch_header: assert_eq!(self.in_entry, 0), then the loop
fetch_header(s) ==
    IF s.raw.in_entry # 0 THEN [s |-> s, r |-> Panic] ELSE FetchHeaderLoop(s)

\* history of the framer: the items emitted (a header by its offset and size),
\* adjacent chunks joined; an empty chunk is recorded by the flag `empty`
LogRaw(s, item) ==
    LET l == s.log.raw IN
    IF item.i = "Chunk"
    THEN IF SLen(item.bytes) = 0 THEN [s EXCEPT !.log.empty = TRUE]
         ELSE IF /\ Len(l) > 0
                 /\ l[Len(l)].i = "Chunk"
                 /\ l[Len(l)].bytes.hi = item.bytes.lo
         THEN [s EXCEPT !.log.raw[Len(l)].bytes.hi = item.bytes.hi]
         ELSE [s EXCEPT !.log.raw = Append(@, item)]
    ELSE IF item.i = "Header"
    THEN [s EXCEPT !.log.raw =
            Append(@, [i |-> "Header", at |-> item.header.at, size |-> item.header.size])]
    ELSE [s EXCEPT !.log.raw = Append(@, item)]

Emit(s, item) == [s |-> LogRaw(s, item), r |-> Ready(Some(item))]

\* (size + 511) & !(512 - 1), the sum wrapped at the width of the word
RoundUp(size) ==
    LET sum == (size + 511) % WordMod IN sum - (sum % HEADER_SIZE)

\* the loop of RawTarStream::poll taken when in_entry > 0
RECURSIVE EntryLoop(_)

\* the body of the loop with the chunk cut one byte past in_entry_raw
EntryStepLate(f) ==
    IF f.r.t # "Ready" THEN f
    ELSE IF f.r.x.none THEN [s |-> f.s, r |-> Ready(None)]
    ELSE IF f.s.raw.in_entry_raw >= SLen(f.r.x.v)
    THEN Emit([f.s EXCEPT !.raw.in_entry_raw = @ - SLen(f.r.x.v)], RChunk(f.r.x.v))
    ELSE IF f.s.raw.in_entry_raw > 0
    THEN Emit([f.s EXCEPT !.raw.in_entry_raw = 0],
              RChunk(Slice(f.r.x.v.lo, f.r.x.v.lo + f.s.raw.in_entry_raw + 1)))
    ELSE EntryLoop(f.s)

\* the body of the loop, on what fetch_entry_bytes gave
EntryStep(f) ==
    IF f.r.t # "Ready" THEN f
    ELSE IF f.r.x.none THEN [s |-> f.s, r |-> Ready(None)]
    ELSE IF f.s.raw.in_entry_raw >= SLen(f.r.x.v)
    THEN Emit([f.s EXCEPT !.raw.in_entry_raw = @ - SLen(f.r.x.v)], RChunk(f.r.x.v))
    ELSE IF f.s.raw.in_entry_raw > 0
    THEN Emit([f.s EXCEPT !.raw.in_entry_raw = 0],
              RChunk(Slice(f.r.x.v.lo, f.r.x.v.lo + f.s.raw.in_entry_raw)))
    ELSE EntryLoop(f.s)

EntryLoop(s) == EntryStep(fetch_entry_bytes(s))

\* the rest of RawTarStream::poll: the next header
HeaderItem(f) ==
    IF f.r.t # "Ready" THEN f
    ELSE IF f.r.x.none THEN [s |-> f.s, r |-> Ready(None)]
    ELSE IF AllZero(f.r.x.v) THEN Emit(f.s, REmptyHeader)
    ELSE IF ~entry_size(f.r.x.v).ok THEN [s |-> f.s, r |-> Fail("IoError")]
    ELSE IF entry_size(f.r.x.v).v + 511 >= WordMod /\ f.s.build = "debug"
    THEN [s |-> f.s, r |-> Panic]
    ELSE Emit([f.s EXCEPT !.raw.in_entry = RoundUp(entry_size(f.r.x.v).v),
                          !.raw.in_entry_raw = entry_size(f.r.x.v).v],
              RHeader(f.r.x.v))

HeaderStep(s) == HeaderItem(fetch_header(s))

\* history of the framer: how a poll that yields no item returned (the end of
\* the stream or an error), with the header bytes buffered and the bytes of
\* the current member outstanding as that poll left them
RawDone(p) ==
    IF p.r.t = "Err" \/ IsEnd(p.r)
    THEN [p EXCEPT !.s.log.rawfin =
                       Some([r |-> IF IsEnd(p.r) THEN "End" ELSE p.r.e,
                             buffered |-> BufLen(p.s.raw.buffer),
                             in_entry |-> p.s.raw.in_entry]),
                   !.s.log.err.raw = @ \/ p.r.t = "Err"]
    ELSE p

\* RawTarStream::poll
RawPoll(s) == RawDone(IF s.raw.in_entry > 0 THEN EntryLoop(s) ELSE HeaderStep(s))

(***************************************************************************)
(* decode/flat.rs: EntryStream                                             *)
(***************************************************************************)
\* tar::Header accessors
as_gnu(h) == h.k = "hdr" /\ h.magic = "gnu"
as_ustar(h) == h.k = "hdr" /\ h.magic = "ustar"
is_gnu_longname(h) == h.typeflag = 76
is_gnu_longlink(h) == h.typeflag = 75
is_pax_local_extensions(h) == h.typeflag = 120
link_name_bytes(h) == IF h.link = <<>> THEN None ELSE Some(h.link)
username_bytes(h) == IF h.magic = "old" THEN None ELSE Some(h.uname)
groupname_bytes(h) == IF h.magic = "old" THEN None ELSE Some(h.gname)
\* header.atime().ok().map(..): the GNU header's field when it parses, in whole
\* seconds
gnu_time(v) == IF v >= 0 THEN Some(FileTime(v, 0)) ELSE None

\* Option::unwrap_or / Option::or_else
UnwrapOr(o, d) == IF IsSome(o) THEN o.v ELSE d
OrElse(o, d) == IF IsSome(o) THEN o ELSE d

\* gnu_str_buffer2vec: drops one trailing NUL
gnu_str_buffer2vec(buf) ==
    IF Len(buf) > 0 /\ buf[Len(buf)] = NUL THEN Sub(buf, 0, Len(buf) - 1) ELSE buf

\* EntryStream::new
NewFlat ==
    [buffer |-> None, attributes |-> NoAttributes, state |-> [s |-> "Clean"]]

TEntry(e) == [i |-> "Entry", entry |-> e]
TChunk(b) == [i |-> "Chunk", bytes |-> b]

\* the first match of poll_next_header over (self.state.take(), self.buffer.take()):
\* the attributes after it, or None for the unreachable!() arm
Commit(f) ==
    IF f.state.s = "InGnuLongName" /\ IsSome(f.buffer)
    THEN Some([f.attributes EXCEPT !.path = Some(gnu_str_buffer2vec(f.buffer.v))])
    ELSE IF f.state.s = "InGnuLongLink" /\ IsSome(f.buffer)
    THEN Some([f.attributes EXCEPT !.link_path = Some(gnu_str_buffer2vec(f.buffer.v))])
    ELSE IF f.state.s = "InPaxExtensions" /\ ~IsSome(f.buffer)
    THEN Some(into_attr(f.state.decoder))
    ELSE IF f.state.s = "Clean" THEN Some(f.attributes)
    ELSE None

\* the TarEntry built by poll_next_header for a real header
BuildEntry(attributes, entry) ==
    LET a == IF as_gnu(entry)
             THEN [attributes EXCEPT !.atime = gnu_time(entry.atime),
                                     !.ctime = gnu_time(entry.ctime)]
             ELSE attributes
    IN
    [entry_type |-> entry.typeflag,
     path_bytes |-> UnwrapOr(a.path, entry.name),
     link_bytes |-> OrElse(a.link_path, link_name_bytes(entry)),
     size |-> UnwrapOr(a.size, entry.size),
     uid |-> UnwrapOr(a.uid, entry.uid),
     gid |-> UnwrapOr(a.gid, entry.gid),
     mtime |-> UnwrapOr(a.mtime, entry.mtime),
     ctime |-> a.ctime,
     atime |-> a.atime,
     uname |-> OrElse(a.uname, username_bytes(entry)),
     gname |-> OrElse(a.gname, groupname_bytes(entry)),
     at |-> entry.at]

LogEntry(s, e) == [s EXCEPT !.log.entries = Append(@, e)]

\* history of the coalescer: the bytes of the chunks it has emitted
LogChunk(s, bytes) == [s EXCEPT !.log.chunks = Put(@, bytes)]

\* the end of poll_next_header with the size attribute left in place
EmitEntryKeep(s, entry) ==
    LET e == BuildEntry(s.flat.attributes, entry) IN
    [s |-> LogEntry([s EXCEPT !.flat.attributes =
                                  [NoAttributes EXCEPT !.size = s.flat.attributes.size]], e),
     r |-> Ready(Some(TEntry(e)))]

\* the end of poll_next_header for a real header: every attribute is taken
\* out of self.attributes and the entry is returned
EmitEntry(s, entry) ==
    LET e == BuildEntry(s.flat.attributes, entry) IN
    [s |-> LogEntry([s EXCEPT !.flat.attributes = NoAttributes], e),
     r |-> Ready(Some(TEntry(e)))]

RECURSIVE poll_next_header(_, _)
RECURSIVE poll_data(_)

\* the take of the state with the buffer left in place
TakeStateOnly(s) == [s EXCEPT !.flat.state = [s |-> "Clean"]]

\* (self.state.take(), self.buffer.take())
TakeState(s) == [s EXCEPT !.flat.state = [s |-> "Clean"], !.flat.buffer = None]

\* EntryStream::poll_next_header
poll_next_header(s, entry) ==
    LET committed == Commit(s.flat)
        s1 == TakeState(s)
    IN
    IF committed.none THEN [s |-> [s1 EXCEPT !.log.unreachable = TRUE], r |-> Panic]
    ELSE LET s2 == [s1 EXCEPT !.flat.attributes = committed.v] IN
         IF as_gnu(entry) /\ is_gnu_longname(entry)
         THEN IF ~entry_size(entry).ok THEN [s |-> s2, r |-> Fail("IoError")]
              ELSE poll_data([s2 EXCEPT !.flat.buffer = Some(<<>>),
                                        !.flat.state = [s |-> "InGnuLongName"]])
         ELSE IF as_gnu(entry) /\ is_gnu_longlink(entry)
         THEN IF ~entry_size(entry).ok THEN [s |-> s2, r |-> Fail("IoError")]
              ELSE poll_data([s2 EXCEPT !.flat.buffer = Some(<<>>),
                                        !.flat.state = [s |-> "InGnuLongLink"]])
         ELSE IF as_ustar(entry) /\ is_pax_local_extensions(entry)
         THEN poll_data([s2 EXCEPT !.flat.buffer = None,
                                   !.flat.state = [s |-> "InPaxExtensions",
                                                   decoder |-> NewPaxDecoder]])
         ELSE IF ~entry_size(entry).ok
         THEN [s |-> [s2 EXCEPT !.flat.attributes.path = None,
                                !.flat.attributes.link_path = None],
               r |-> Fail("IoError")]
         ELSE EmitEntry(s2, entry)

\* the Chunk arm of poll_data: the chunk goes to the GNU buffer or the PAX decoder
Decoded(s, d) == [s |-> [s EXCEPT !.flat.state.decoder = d.dec], res |-> d.res]

FeedChunk(s, bytes) ==
    IF s.flat.state.s \in {"InGnuLongLink", "InGnuLongName"}
    THEN IF ~IsSome(s.flat.buffer) THEN [s |-> [s EXCEPT !.log.unreachable = TRUE], res |-> "Panic"]
         ELSE [s |-> [s EXCEPT !.flat.buffer.v = @ \o SliceBytes(s.archive, bytes)],
               res |-> "Ok"]
    ELSE IF s.flat.state.s = "InPaxExtensions"
    THEN Decoded(s, decode(s.flat.state.decoder, SliceBytes(s.archive, bytes), s.build))
    ELSE [s |-> [s EXCEPT !.log.unreachable = TRUE], res |-> "Panic"]

\* the Chunk arm of poll_data after the chunk is fed: the loop goes on, or the
\* decoder's error is mapped to Error::Format
AfterFeed(fed) ==
    IF fed.res = "Ok" THEN poll_data(fed.s)
    ELSE IF fed.res = "Panic" THEN [s |-> fed.s, r |-> Panic]
    ELSE [s |-> fed.s, r |-> Fail("Format")]

\* the match of poll_data with the Chunk arm returning the chunk
DataItemLeak(p) ==
    IF p.r.t # "Ready" THEN p
    ELSE IF p.r.x.none THEN [s |-> p.s, r |-> Fail("UnexpectedEof")]
    ELSE IF p.r.x.v.i = "Chunk"
    THEN [s |-> LogChunk(p.s, p.r.x.v.bytes), r |-> Ready(Some(TChunk(p.r.x.v.bytes)))]
    ELSE IF p.r.x.v.i = "Header" THEN poll_next_header(p.s, p.r.x.v.header)
    ELSE [s |-> p.s, r |-> Fail("UnexpectedEof")]

\* the match of poll_data on what the framer's poll gave
DataItem(p) ==
    IF p.r.t # "Ready" THEN p
    ELSE IF p.r.x.none THEN [s |-> p.s, r |-> Fail("UnexpectedEof")]
    ELSE IF p.r.x.v.i = "Chunk" THEN AfterFeed(FeedChunk(p.s, p.r.x.v.bytes))
    ELSE IF p.r.x.v.i = "Header" THEN poll_next_header(p.s, p.r.x.v.header)
    ELSE [s |-> p.s, r |-> Fail("UnexpectedEof")]

\* EntryStream::poll_data
poll_data(s) == DataItem(RawPoll(s))

\* EntryStream::poll
RECURSIVE FlatPoll(_)

\* the match in State::Clean ending the stream at an EmptyHeader
CleanItemStop(p) ==
    IF p.r.t # "Ready" THEN p
    ELSE IF p.r.x.none THEN [s |-> p.s, r |-> Ready(None)]
    ELSE IF p.r.x.v.i = "Header" THEN poll_next_header(p.s, p.r.x.v.header)
    ELSE IF p.r.x.v.i = "Chunk"
    THEN [s |-> p.s, r |-> Ready(Some(TChunk(p.r.x.v.bytes)))]
    ELSE [s |-> p.s, r |-> Ready(None)]

\* the match of poll in State::Clean on what the framer's poll gave
CleanItem(p) ==
    IF p.r.t # "Ready" THEN p
    ELSE IF p.r.x.none THEN [s |-> p.s, r |-> Ready(None)]
    ELSE IF p.r.x.v.i = "Header" THEN poll_next_header(p.s, p.r.x.v.header)
    ELSE IF p.r.x.v.i = "Chunk"
    THEN [s |-> LogChunk(p.s, p.r.x.v.bytes), r |-> Ready(Some(TChunk(p.r.x.v.bytes)))]
    ELSE FlatPoll(p.s)

\* history of the coalescer: a poll has returned an error, and the state it
\* has left the coalescer in
FlatDone(p) ==
    IF p.r.t = "Err"
    THEN [p EXCEPT !.s.log.err.flat = TRUE,
                   !.s.log.flatfin = Some([r |-> p.r.e, state |-> p.s.flat.state.s])]
    ELSE p

FlatPoll(s) ==
    FlatDone(IF s.flat.state.s = "Clean" THEN CleanItem(RawPoll(s)) ELSE poll_data(s))

(***************************************************************************)
(* decode/full.rs: DeepTarStreamInner, DeepTarStream, Entry                *)
(***************************************************************************)
\* DeepTarStreamInner::new; poisoned is the Mutex's flag, set when a poll
\* panics while it holds the lock
NewDeep == [position |-> 0, bytes |-> 0, poisoned |-> FALSE]

\* the match of poll_entry_data on what the coalescer's poll gave
EntryData(p, d) ==
    IF p.r.t = "Panic" THEN [s |-> p.s, d |-> [d EXCEPT !.poisoned = TRUE], r |-> Panic]
    ELSE IF p.r.t # "Ready" THEN [s |-> p.s, d |-> d, r |-> p.r]
    ELSE IF p.r.x.none THEN [s |-> p.s, d |-> d, r |-> Fail("UnexpectedEof")]
    ELSE IF p.r.x.v.i = "Chunk"
    THEN \* self.bytes -= bytes.len(): panics in a debug build, wraps in release
         IF SLen(p.r.x.v.bytes) > d.bytes /\ p.s.build = "debug"
         THEN [s |-> p.s, d |-> [d EXCEPT !.poisoned = TRUE], r |-> Panic]
         ELSE [s |-> p.s,
               d |-> [d EXCEPT !.bytes = IF @ >= SLen(p.r.x.v.bytes)
                                         THEN @ - SLen(p.r.x.v.bytes)
                                         ELSE @ - SLen(p.r.x.v.bytes) + WordMod],
               r |-> Ready(Some(p.r.x.v.bytes))]
    ELSE [s |-> p.s, d |-> [d EXCEPT !.poisoned = TRUE], r |-> Panic]

\* poll_entry_data without the comparison of positions
poll_entry_data_any(s, d, position) ==
    IF d.bytes > 0
    THEN EntryData(FlatPoll(s), d)
    ELSE [s |-> s, d |-> d, r |-> Ready(None)]

\* DeepTarStreamInner::poll_entry_data
poll_entry_data(s, d, position) ==
    IF d.position = position /\ d.bytes > 0
    THEN EntryData(FlatPoll(s), d)
    ELSE [s |-> s, d |-> d, r |-> Ready(None)]

\* the loop of DeepTarStreamInner::poll_next_entry
RECURSIVE NextEntryLoop(_, _)

\* the match of the loop ending the stream at a chunk left over from the
\* entry before
NextEntryStop(p, d) ==
    IF p.r.t = "Panic" THEN [s |-> p.s, d |-> [d EXCEPT !.poisoned = TRUE], r |-> Panic]
    ELSE IF p.r.t # "Ready" THEN [s |-> p.s, d |-> d, r |-> p.r]
    ELSE IF p.r.x.none THEN [s |-> p.s, d |-> d, r |-> Ready(None)]
    ELSE IF p.r.x.v.i = "Entry"
    THEN [s |-> p.s,
          d |-> [d EXCEPT !.position = @ + 1, !.bytes = p.r.x.v.entry.size],
          r |-> Ready(Some(<<p.r.x.v.entry, d.position + 1>>))]
    ELSE [s |-> p.s, d |-> d, r |-> Ready(None)]

\* the match of the loop on what the coalescer's poll gave
NextEntry(p, d) ==
    IF p.r.t = "Panic" THEN [s |-> p.s, d |-> [d EXCEPT !.poisoned = TRUE], r |-> Panic]
    ELSE IF p.r.t # "Ready" THEN [s |-> p.s, d |-> d, r |-> p.r]
    ELSE IF p.r.x.none THEN [s |-> p.s, d |-> d, r |-> Ready(None)]
    ELSE IF p.r.x.v.i = "Entry"
    THEN [s |-> p.s,
          d |-> [d EXCEPT !.position = @ + 1, !.bytes = p.r.x.v.entry.size],
          r |-> Ready(Some(<<p.r.x.v.entry, d.position + 1>>))]
    ELSE NextEntryLoop(p.s, d)

NextEntryLoop(s, d) == NextEntry(FlatPoll(s), d)

\* poll_next_entry without the test of the payload left
poll_next_entry_eager(s, d) == NextEntryLoop(s, d)

\* poll_next_entry counting the polls that find payload left
poll_next_entry_bump(s, d) ==
    IF d.bytes > 0
    THEN [s |-> s, d |-> [d EXCEPT !.position = @ + 1], r |-> NotReady]
    ELSE NextEntryLoop(s, d)

\* DeepTarStreamInner::poll_next_entry
poll_next_entry(s, d) ==
    IF d.bytes > 0 THEN [s |-> s, d |-> d, r |-> NotReady] ELSE NextEntryLoop(s, d)

drop_keep(d) == d

\* impl Drop for Entry: self.inner.lock().unwrap().bytes = 0
drop(d) == [d EXCEPT !.bytes = 0]

(***************************************************************************)
(* The archives of the model.                                              *)
(***************************************************************************)
\* chunk boundaries fall at the first MaxCut offsets of a block, at MidCut, or
\* at the end of the archive; a chunk is at most MaxChunk bytes long
MaxCut == 5
MidCut == 300
MaxChunk == 1100
\* chunks that have arrived and are not yet polled
MaxAvail == 1

ZeroBlock == [k |-> "zero", at |-> 0]
DataBlock(data) == [k |-> "data", at |-> 0, data |-> data]
HdrBlock(magic, typeflag, size, name) ==
    [k |-> "hdr", at |-> 0, magic |-> magic, typeflag |-> typeflag, size |-> size,
     name |-> name, link |-> <<>>, uid |-> 7, gid |-> 8, mtime |-> 9,
     uname |-> <<117>>, gname |-> <<103>>,
     atime |-> IF magic = "gnu" THEN 3 ELSE -1,
     ctime |-> IF magic = "gnu" THEN 4 ELSE -1]

\* a header and the blocks of its payload
Member(magic, typeflag, name, payload) ==
    <<HdrBlock(magic, typeflag, Len(payload), name)>>
    \o [i \in 1..((Len(payload) + 511) \div HEADER_SIZE) |->
          DataBlock(Sub(payload, (i - 1) * HEADER_SIZE,
                        IF i * HEADER_SIZE < Len(payload) THEN i * HEADER_SIZE
                        ELSE Len(payload)))]

File(name, payload) == Member("ustar", 48, name, payload)
GnuLongName(payload) == Member("gnu", 76, <<64>>, payload)
GnuLongLink(payload) == Member("gnu", 75, <<64>>, payload)
PaxExt(payload) == Member("ustar", 120, <<120>>, payload)

\* "9 path=p\n", "7 k=<U+00E9>\n", "14 linkpath=q\n", "9 size=1\n", "9 size=2\n",
\* "9 size=3\n"
RecPath == <<57, SP>> \o K_path \o <<EQ, 112, LF>>
RecUtf8 == <<55, SP, 107, EQ, 195, 169, LF>>
RecLink == <<49, 52, SP>> \o K_linkpath \o <<EQ, 113, LF>>
RecSize(n) == <<57, SP>> \o K_size \o <<EQ, CH0 + n, LF>>
\* "11 atime=5\n", "11 ctime=6\n"
RecAtime == <<49, 49, SP>> \o K_atime \o <<EQ, 53, LF>>
RecCtime == <<49, 49, SP>> \o K_ctime \o <<EQ, 54, LF>>

Members ==
    [F0 |-> File(<<97>>, <<>>),
     G0 |-> Member("gnu", 48, <<99>>, <<>>),
     XA |-> PaxExt(RecAtime \o RecCtime),
     F2 |-> File(<<98>>, <<1, 2>>),
     L |-> GnuLongName(<<110, NUL>>),
     K |-> GnuLongLink(<<108, NUL>>),
     XP |-> PaxExt(RecPath),
     XU |-> PaxExt(RecUtf8),
     XL |-> PaxExt(RecLink),
     X1 |-> PaxExt(RecSize(1)),
     X2 |-> PaxExt(RecSize(2)),
     X3 |-> PaxExt(RecSize(3)),
     Z |-> <<ZeroBlock>>]

Layouts ==
    { <<"F2", "F2">>, <<"F0", "Z", "Z">>, <<"XU", "F0">>,
      <<"L", "XP", "F0">>, <<"XP", "L", "F0">>,
      <<"K", "XL", "F0">>, <<"XL", "K", "F0">>,
      <<"L", "X2", "F2">>, <<"X2", "L", "F2">>,
      <<"X1", "F2", "F0">>, <<"X3", "F2", "F0">>,
      <<"XA", "G0">>, <<"XA", "F0">>, <<"G0">>,
      <<"L", "L", "F0">>, <<"K", "K", "F0">>, <<"XP", "XP", "F0">>,
      <<"Z", "Z">>, <<"Z", "Z", "F0">>,
      <<"L", "Z", "F0">>, <<"K", "Z", "F0">>, <<"XP", "Z", "F0">>,
      <<"L">>, <<"XP">> }

RECURSIVE Blocks(_)
Blocks(layout) ==
    IF layout = <<>> THEN <<>> ELSE Members[Head(layout)] \o Blocks(Tail(layout))

\* two files, cut short inside the second header, inside the second payload and
\* right after it
Truncated ==
    { [blocks |-> Blocks(<<"F2", "F2">>), len |-> n] :
        n \in {2 * HEADER_SIZE + MidCut, 3 * HEADER_SIZE + 1, 3 * HEADER_SIZE + 2} }

Archives ==
    { [blocks |-> Blocks(l), len |-> Len(Blocks(l)) * HEADER_SIZE] : l \in Layouts }
    \cup Truncated

\* where the source may cut its chunks
Cuts(a) ==
    { e \in 1..a.len :
        e % HEADER_SIZE <= MaxCut \/ e % HEADER_SIZE = MidCut \/ e = a.len }

(***************************************************************************)
(* What an archive holds, read block by block with no chunking and no      *)
(* consumer: the reference the runs are compared with.                     *)
(***************************************************************************)
\* block i of the archive is there in full
Complete(a, i) == i >= 1 /\ i <= Len(a.blocks) /\ i * HEADER_SIZE <= a.len
\* the index of the header after the member whose header is block i
NextIdx(i, size) == i + 1 + ((size + 511) \div HEADER_SIZE)
\* the payload of the member whose header is block i
PayloadOf(a, i) ==
    SliceBytes(a, Slice(i * HEADER_SIZE, i * HEADER_SIZE + a.blocks[i].size))
PaxOf(a, b, i) ==
    IF a.blocks[i].size = 0 THEN [dec |-> NewPaxDecoder, res |-> "Ok"]
    ELSE decode(NewPaxDecoder, PayloadOf(a, i), b)

\* the entries of the archive in order, each pseudo-entry read whole and
\* committed at the next header
RECURSIVE BlockWalk(_, _, _, _)
BlockWalk(a, b, i, f) ==
    IF ~Complete(a, i) THEN <<>>
    ELSE LET blk == [a.blocks[i] EXCEPT !.at = (i - 1) * HEADER_SIZE]
             n == NextIdx(i, blk.size)
             c == Commit(f)
         IN
         IF blk.k = "zero"
         THEN IF f.state.s = "Clean" THEN BlockWalk(a, b, i + 1, f) ELSE <<>>
         ELSE IF blk.k # "hdr" \/ c.none THEN <<>>
         ELSE IF as_gnu(blk) /\ (is_gnu_longname(blk) \/ is_gnu_longlink(blk))
         THEN IF ~Complete(a, n) THEN <<>>
              ELSE BlockWalk(a, b, n,
                     [buffer |-> Some(PayloadOf(a, i)), attributes |-> c.v,
                      state |-> [s |-> IF is_gnu_longname(blk) THEN "InGnuLongName"
                                       ELSE "InGnuLongLink"]])
         ELSE IF as_ustar(blk) /\ is_pax_local_extensions(blk)
         THEN IF ~Complete(a, n) THEN <<>>
              ELSE LET d == PaxOf(a, b, i) IN
                   IF d.res # "Ok" THEN <<>>
                   ELSE BlockWalk(a, b, n,
                          [buffer |-> None, attributes |-> c.v,
                           state |-> [s |-> "InPaxExtensions", decoder |-> d.dec]])
         ELSE <<BuildEntry(c.v, blk)>> \o BlockWalk(a, b, n, NewFlat)

\* for each real header of the archive: its offset, its name and link fields,
\* and what the pseudo-entries before it supply, each kept apart
NoPending == [gnu_name |-> None, gnu_link |-> None, pax |-> None]

RECURSIVE Supplied(_, _, _, _)
Supplied(a, b, i, pend) ==
    IF ~Complete(a, i) THEN <<>>
    ELSE LET blk == a.blocks[i]
             n == NextIdx(i, blk.size)
         IN
         IF blk.k = "zero"
         THEN IF pend = NoPending THEN Supplied(a, b, i + 1, pend) ELSE <<>>
         ELSE IF blk.k # "hdr" THEN <<>>
         ELSE IF as_gnu(blk) /\ is_gnu_longname(blk)
         THEN IF ~Complete(a, n) THEN <<>>
              ELSE Supplied(a, b, n,
                     [pend EXCEPT !.gnu_name = Some(gnu_str_buffer2vec(PayloadOf(a, i)))])
         ELSE IF as_gnu(blk) /\ is_gnu_longlink(blk)
         THEN IF ~Complete(a, n) THEN <<>>
              ELSE Supplied(a, b, n,
                     [pend EXCEPT !.gnu_link = Some(gnu_str_buffer2vec(PayloadOf(a, i)))])
         ELSE IF as_ustar(blk) /\ is_pax_local_extensions(blk)
         THEN IF ~Complete(a, n) \/ PaxOf(a, b, i).res # "Ok" THEN <<>>
              ELSE Supplied(a, b, n,
                     [pend EXCEPT !.pax = Some(PaxOf(a, b, i).dec.attributes)])
         ELSE <<[at |-> (i - 1) * HEADER_SIZE, name |-> blk.name,
                 link |-> link_name_bytes(blk), size |-> blk.size,
                 gnu_name |-> pend.gnu_name, gnu_link |-> pend.gnu_link,
                 pax |-> pend.pax, gnu |-> as_gnu(blk),
                 atime |-> blk.atime, ctime |-> blk.ctime]>>
              \o Supplied(a, b, n, NoPending)

\* the payload an entry's stream has yielded, adjacent chunks joined
Got(got, b) ==
    IF SLen(b) = 0 THEN got
    ELSE IF Len(got) > 0 /\ got[Len(got)].hi = b.lo
    THEN [got EXCEPT ![Len(got)].hi = b.hi]
    ELSE Append(got, b)

\* what a poll returned, for the history
Tag(r) ==
    IF r.t = "Ready" THEN (IF r.x.none THEN "End" ELSE "Item")
    ELSE IF r.t = "Err" THEN r.e
    ELSE r.t

\* the run of decode_tar over the archive delivered as one chunk, by a consumer
\* that reads every entry to its end before it asks for the next
RECURSIVE DrainOuter(_, _, _)
RECURSIVE DrainInner(_, _, _, _)
Drained(p, out) ==
    IF IsItem(p.r)
    THEN DrainInner(p.s, p.d,
                    Append(out, [entry |-> p.r.x.v[1], got |-> <<>>, st |-> "open"]),
                    p.r.x.v[2])
    ELSE [outer |-> out, fin |-> Tag(p.r)]

DrainOuter(s, d, out) == Drained(poll_next_entry(s, d), out)

DrainedEntry(p, out, h) ==
    IF IsItem(p.r)
    THEN DrainInner(p.s, p.d, [out EXCEPT ![h].got = Got(@, p.r.x.v)], h)
    ELSE IF p.r.t \in {"Panic", "NotReady"}
    THEN [outer |-> [out EXCEPT ![h].st = Tag(p.r)], fin |-> Tag(p.r)]
    ELSE DrainOuter(p.s, drop(p.d), [out EXCEPT ![h].st = Tag(p.r)])

DrainInner(s, d, out, h) == DrainedEntry(poll_entry_data(s, d, h), out, h)

OneChunk(a, b) ==
    [archive |-> a, build |-> b,
     upstream |-> [pos |-> a.len, avail |-> <<Slice(0, a.len)>>, eof |-> TRUE],
     raw |-> NewRaw, flat |-> NewFlat,
     log |-> [raw |-> <<>>, entries |-> <<>>, rawfin |-> None, flatfin |-> None,
              err |-> [raw |-> FALSE, flat |-> FALSE]]]

\* the three references for the archive of the run
ExpectedEntries == BlockWalk(archive, build, 1, NewFlat)
ExpectedSupplied == Supplied(archive, build, 1, NoPending)
ExpectedDrained == DrainOuter(OneChunk(archive, build), NewDeep, <<>>)

(***************************************************************************)
(* The system: a byte source delivering the archive in chunks, and a       *)
(* consumer polling the outer stream and the entries it holds.             *)
(***************************************************************************)
Sys ==
    [archive |-> archive, build |-> build, upstream |-> upstream,
     raw |-> raw, flat |-> flat, log |-> log]

NoPax == [input |-> <<>>, rest |-> <<>>, dec |-> NewPaxDecoder, res |-> "Ok"]
NoTime == [value |-> <<>>, res |-> None]

\* the threads that call into the decoder at the same time
MaxThreads == 2
Threads == 1..MaxThreads

\* Mutex::new: the lock is free and no thread is in a call
NoLock ==
    [holder |-> 0,
     pc |-> [t \in Threads |-> "idle"],
     call |-> [t \in Threads |-> [op |-> "", h |-> 0]],
     ret |-> [t \in Threads |-> ""]]

\* raw, entries: the items of the framer and the entries of the coalescer;
\* outer: per epoch, the entry yielded, the payload its stream yielded, how the
\* stream first ended, whether the handle was dropped, and the epoch of the handle
\* whose drop discarded payload of the entry while its stream was open (or 0);
\* rawfin, flatfin, err: how the framer and the coalescer last returned without
\* an item, and whether each has returned an error;
\* fin, term: the first terminal result (end, error, panic) and how many came;
\* unreachable: the coalescer has reached an unreachable!() arm or unwrapped an
\* absent buffer;
\* parked, notified: why the outer poll last returned not-ready ("payload" for
\* the early return on unread payload, "source" when the byte source was
\* pending), and whether its task has been notified since: only the byte
\* source notifies, no function of full.rs registers or notifies a task;
\* last: the last step taken
NoLog ==
    [raw |-> <<>>, empty |-> FALSE, entries |-> <<>>, chunks |-> <<>>,
     rawfin |-> None, flatfin |-> None,
     err |-> [raw |-> FALSE, flat |-> FALSE],
     outer |-> <<>>, fin |-> "", term |-> 0,
     parked |-> "", notified |-> FALSE, unreachable |-> FALSE,
     last |-> [op |-> "init", h |-> 0, r |-> ""]]

Terminal(r) == r.t \in {"Err", "Panic"} \/ IsEnd(r)
Finish(l, r, terminal) ==
    [l EXCEPT !.fin = IF terminal /\ @ = "" THEN r ELSE @,
              !.term = IF terminal /\ @ < 2 THEN @ + 1 ELSE @]

Init ==
    /\ archive \in Archives
    /\ build \in {"debug", "release"}
    /\ upstream = [pos |-> 0, avail |-> <<>>, eof |-> FALSE]
    /\ raw = NewRaw
    /\ flat = NewFlat
    /\ deep = NewDeep
    /\ handles = {}
    /\ log = NoLog
    /\ pax = NoPax
    /\ time = NoTime
    /\ lock = NoLock

\* the source delivers its next chunk, cut at one of the offsets given
ArriveAt(cuts) ==
    /\ ~deep.poisoned
    /\ Len(upstream.avail) < MaxAvail
    /\ \E e \in cuts :
        /\ e > upstream.pos
        /\ e - upstream.pos <= MaxChunk
        /\ upstream' = [upstream EXCEPT !.pos = e,
                                        !.avail = Append(@, Slice(upstream.pos, e))]
    /\ log' = [log EXCEPT !.notified = @ \/ log.parked = "source",
                           !.last = [op |-> "arrive", h |-> 0, r |-> ""]]
    /\ UNCHANGED <<archive, build, raw, flat, deep, handles, pax, time, lock>>

Arrive == ArriveAt(Cuts(archive))

\* the source reports its end
Close ==
    /\ ~deep.poisoned
    /\ upstream.pos = archive.len
    /\ ~upstream.eof
    /\ upstream' = [upstream EXCEPT !.eof = TRUE]
    /\ log' = [log EXCEPT !.notified = @ \/ log.parked = "source",
                           !.last = [op |-> "close", h |-> 0, r |-> ""]]
    /\ UNCHANGED <<archive, build, raw, flat, deep, handles, pax, time, lock>>

\* DeepTarStream::poll under the lock
DeepPoll ==
    /\ ~deep.poisoned
    /\ \E p \in {poll_next_entry(Sys, deep)} :
       LET yielded == IsItem(p.r) IN
       /\ upstream' = p.s.upstream
       /\ raw' = p.s.raw
       /\ flat' = p.s.flat
       /\ deep' = p.d
       /\ handles' = IF yielded THEN handles \cup {p.r.x.v[2]} ELSE handles
       /\ log' = [Finish(p.s.log, Tag(p.r), Terminal(p.r)) EXCEPT
                    !.outer = IF yielded
                              THEN Append(@, [entry |-> p.r.x.v[1], got |-> <<>>,
                                              st |-> "open", dropped |-> FALSE,
                                              lost |-> 0])
                              ELSE @,
                    !.parked = IF p.r.t # "NotReady" THEN ""
                               ELSE IF deep.bytes > 0 THEN "payload"
                               ELSE "source",
                    !.notified = FALSE,
                    !.last = [op |-> "outer", h |-> 0, r |-> Tag(p.r)]]
    /\ UNCHANGED <<archive, build, pax, time>>

\* DeepTarStream::poll: lock, poll and unlock in one step
OuterPoll == DeepPoll /\ UNCHANGED lock

\* Entry::poll on the handle of epoch h, under the lock
EntryPoll(h) ==
    /\ ~deep.poisoned
    /\ h \in handles
    /\ \E p \in {poll_entry_data(Sys, deep, h)} :
       /\ upstream' = p.s.upstream
       /\ raw' = p.s.raw
       /\ flat' = p.s.flat
       /\ deep' = p.d
       /\ log' = [Finish(p.s.log, Tag(p.r), p.r.t = "Panic") EXCEPT
                    !.outer[h].got = IF IsItem(p.r) THEN Got(@, p.r.x.v) ELSE @,
                    !.outer[h].st = IF @ # "open" \/ p.r.t = "NotReady" \/ IsItem(p.r)
                                    THEN @ ELSE Tag(p.r),
                    !.last = [op |-> "inner", h |-> h, r |-> Tag(p.r)]]
    /\ UNCHANGED <<archive, build, handles, pax, time>>

\* Entry::poll: lock, poll and unlock in one step
InnerPoll(h) == EntryPoll(h) /\ UNCHANGED lock

\* the drop of the handle of epoch h, under the lock
EntryDrop(h) ==
    /\ ~deep.poisoned
    /\ h \in handles
    /\ deep' = drop(deep)
    /\ handles' = handles \ {h}
    /\ log' = [log EXCEPT
                 !.outer[h].dropped = TRUE,
                 !.outer[deep.position].lost =
                     IF @ = 0 /\ deep.bytes > 0 /\ log.outer[deep.position].st = "open"
                     THEN h ELSE @,
                 !.last = [op |-> "drop", h |-> h, r |-> ""]]
    /\ UNCHANGED <<archive, build, upstream, raw, flat, pax, time>>

\* the consumer drops the handle of epoch h: lock, drop and unlock in one step
Drop(h) == EntryDrop(h) /\ UNCHANGED lock

Next ==
    \/ Arrive
    \/ Close
    \/ OuterPoll
    \/ \E h \in handles : InnerPoll(h)
    \/ \E h \in handles : Drop(h)

Spec == Init /\ [][Next]_vars

\* the runs over an archive whose first header declares the largest size a
\* word holds (a GNU base-256 size field), followed by a file and two zero blocks
SpecHuge ==
    /\ archive = [blocks |-> <<HdrBlock("gnu", 48, WordMod - 1, <<104>>)>>
                             \o Blocks(<<"F2", "Z", "Z">>),
                  len |-> 5 * HEADER_SIZE]
    /\ build \in {"debug", "release"}
    /\ upstream = [pos |-> 0, avail |-> <<>>, eof |-> FALSE]
    /\ raw = NewRaw
    /\ flat = NewFlat
    /\ deep = NewDeep
    /\ handles = {}
    /\ log = NoLog
    /\ pax = NoPax
    /\ time = NoTime
    /\ lock = NoLock
    /\ [][Next]_vars

(***************************************************************************)
(* A PaxDecoder on its own: a byte sequence of PAX records fed to decode() *)
(* in pieces, until it is used up or a call fails.                         *)
(***************************************************************************)
MaxPaxRecords == 2

\* "5 ab\n" (no '='), "5 a=b" (no newline at the record's end), "x " (no length)
RecNoEq == <<53, SP, 97, 98, LF>>
RecNoEol == <<53, SP, 97, EQ, 98>>
RecBadSize == <<120, SP>>

\* "6 k=v\n" (a key the decoder does not know), "13 mtime=1.x\n" and
\* "9 size=x\n" (values their parsers reject)
RecUnknown == <<54, SP, 107, EQ, 118, LF>>
RecBadTime == <<49, 51, SP>> \o K_mtime \o <<EQ, 49, DOT, 120, LF>>
RecBadNum == <<57, SP>> \o K_size \o <<EQ, 120, LF>>
\* "1 " and "0 ": a declared length no larger than its own digits
RecShort == <<49, SP>>
RecTiny == <<CH0, SP>>

\* the decimal digits of n
RECURSIVE Decimal(_)
Decimal(n) == IF n < 10 THEN <<CH0 + n>> ELSE Append(Decimal(n \div 10), CH0 + (n % 10))

\* length prefixes that do not fit the word: one past the largest value, and
\* ten times a value that fits
RecWrap == Decimal(WordMod) \o <<SP>>
RecOverflow == Decimal(WordMod - 7) \o <<CH0, SP>>

PaxRecords ==
    {RecPath, RecUtf8, RecSize(1), RecNoEq, RecNoEol, RecBadSize,
     RecUnknown, RecBadTime, RecBadNum, RecShort, RecTiny, RecWrap, RecOverflow}

RECURSIVE Concat(_)
Concat(ss) == IF ss = <<>> THEN <<>> ELSE Head(ss) \o Concat(Tail(ss))

PaxInputs ==
    { Concat(rs) : rs \in UNION { [1..n -> PaxRecords] : n \in 1..MaxPaxRecords } }

InitPax ==
    /\ archive = [blocks |-> <<ZeroBlock>>, len |-> HEADER_SIZE]
    /\ build \in {"debug", "release"}
    /\ upstream = [pos |-> 0, avail |-> <<>>, eof |-> FALSE]
    /\ raw = NewRaw
    /\ flat = NewFlat
    /\ deep = NewDeep
    /\ handles = {}
    /\ log = NoLog
    /\ \E input \in PaxInputs :
        pax = [input |-> input, rest |-> input, dec |-> NewPaxDecoder, res |-> "Ok"]
    /\ time = NoTime
    /\ lock = NoLock

\* one call of PaxDecoder::decode with the next n bytes
Feed ==
    /\ pax.res = "Ok"
    /\ \E n \in 1..Len(pax.rest) :
        \E d \in {decode(pax.dec, Sub(pax.rest, 0, n), build)} :
        pax' = [pax EXCEPT !.rest = Sub(pax.rest, n, Len(pax.rest)),
                           !.dec = d.dec,
                           !.res = d.res]
    /\ UNCHANGED <<archive, build, upstream, raw, flat, deep, handles, log, time, lock>>

NextPax == Feed

SpecPax == InitPax /\ [][NextPax]_vars

(***************************************************************************)
(* The lock.  DeepTarStream and every Entry share one                      *)
(* Arc<Mutex<DeepTarStreamInner>>; a call takes the lock, runs and gives   *)
(* it back as it returns.  Threads call at the same time; a stream or a    *)
(* handle is used by one thread at a time (poll takes &mut self).          *)
(***************************************************************************)
\* the source cuts its chunks five bytes into a block, or at the end
ArriveLock == ArriveAt({ e \in Cuts(archive) : e % HEADER_SIZE = 5 \/ e = archive.len })

\* the archive is a PAX entry followed by a file of two bytes
InitLock ==
    /\ archive = [blocks |-> Blocks(<<"XU", "F2">>),
                  len |-> Len(Blocks(<<"XU", "F2">>)) * HEADER_SIZE]
    /\ build \in {"debug", "release"}
    /\ upstream = [pos |-> 0, avail |-> <<>>, eof |-> FALSE]
    /\ raw = NewRaw
    /\ flat = NewFlat
    /\ deep = NewDeep
    /\ handles = {}
    /\ log = NoLog
    /\ pax = NoPax
    /\ time = NoTime
    /\ lock = NoLock

\* the guard is kept when the poll returns NotReady
MutexUnlockLate(l, t) ==
    [l EXCEPT !.holder = IF l.ret[t] = "NotReady" THEN t ELSE 0,
              !.pc[t] = "idle", !.call[t] = [op |-> "", h |-> 0], !.ret[t] = ""]

\* the guard goes out of scope as the call returns
MutexUnlock(l, t) ==
    [l EXCEPT !.holder = 0, !.pc[t] = "idle", !.call[t] = [op |-> "", h |-> 0], !.ret[t] = ""]

\* thread t calls poll or drops a handle: it asks for the lock.  The outer
\* stream is object 0, a handle is the object of its epoch.
Call(t) ==
    /\ lock.pc[t] = "idle"
    /\ \E c \in {[op |-> "outer", h |-> 0]}
                 \cup {[op |-> o, h |-> h] : o \in {"inner", "drop"}, h \in handles} :
        /\ \A u \in Threads : lock.pc[u] # "idle" => lock.call[u].h # c.h
        /\ lock' = [lock EXCEPT !.pc[t] = "waiting", !.call[t] = c, !.ret[t] = ""]
    /\ UNCHANGED <<archive, build, upstream, raw, flat, deep, handles, log, pax, time>>

\* inner.lock().unwrap() on a lock that is free
Acquire(t) ==
    /\ lock.pc[t] = "waiting"
    /\ lock.holder = 0
    /\ ~deep.poisoned
    /\ lock' = [lock EXCEPT !.holder = t, !.pc[t] = "holding"]
    /\ UNCHANGED <<archive, build, upstream, raw, flat, deep, handles, log, pax, time>>

\* inner.lock().unwrap() on a lock poisoned by a panic: the call panics
AcquirePoisoned(t) ==
    /\ lock.pc[t] = "waiting"
    /\ lock.holder = 0
    /\ deep.poisoned
    /\ lock' = [lock EXCEPT !.pc[t] = "idle", !.call[t] = [op |-> "", h |-> 0]]
    /\ UNCHANGED <<archive, build, upstream, raw, flat, deep, handles, log, pax, time>>

\* the body of the call, run by the thread that holds the lock
Run(t) ==
    /\ lock.pc[t] = "holding"
    /\ \/ lock.call[t].op = "outer" /\ DeepPoll
       \/ lock.call[t].op = "inner" /\ EntryPoll(lock.call[t].h)
       \/ lock.call[t].op = "drop" /\ EntryDrop(lock.call[t].h)
    /\ lock' = [lock EXCEPT !.pc[t] = "done", !.ret[t] = log'.last.r]

\* the call returns (or unwinds) and its guard is dropped
Return(t) ==
    /\ lock.pc[t] = "done"
    /\ lock' = MutexUnlock(lock, t)
    /\ UNCHANGED <<archive, build, upstream, raw, flat, deep, handles, log, pax, time>>

NextLock ==
    \/ ArriveLock
    \/ Close
    \/ \E t \in Threads : Call(t)
    \/ \E t \in Threads : Acquire(t)
    \/ \E t \in Threads : AcquirePoisoned(t)
    \/ \E t \in Threads : Run(t)
    \/ \E t \in Threads : Return(t)

\* a call whose body has run returns, and the lock is handed to every thread
\* that keeps asking for it
SpecLock ==
    /\ InitLock
    /\ [][NextLock]_vars
    /\ \A t \in Threads :
          /\ WF_vars(Return(t))
          /\ SF_vars(Acquire(t) \/ AcquirePoisoned(t))

(***************************************************************************)
(* parse_from on its own: one call on a byte string.                       *)
(***************************************************************************)
MaxTimeLen == 3

\* ' ', '0', '1', '9', '.', 'x'
TimeBytes == {SP, CH0, CH0 + 1, CH9, DOT, 120}

\* "123", "   556677.2": the inputs of test_parse
T123 == <<49, 50, 51>>
T556677 == <<SP, SP, SP, 53, 53, 54, 54, 55, 55, DOT, 50>>
\* fractions of 8, 9 and 10 digits
T8 == <<49, DOT, 49, 50, 51, 52, 53, 54, 55, 56>>
T9 == <<49, DOT, 49, 50, 51, 52, 53, 54, 55, 56, 57>>
T10 == <<CH0, DOT, 49, CH0, CH0, CH0, CH0, CH0, CH0, CH0, CH0, CH0>>
T10Low == <<CH0, DOT, CH0, CH0, CH0, CH0, CH0, CH0, CH0, CH0, CH0, 49>>
T10High == <<CH0, DOT, 49, 54, CH0, CH0, CH0, CH0, CH0, CH0, CH0, CH0>>

TimeInputs ==
    UNION { [1..n -> TimeBytes] : n \in 0..MaxTimeLen }
    \cup {T123, T556677, T8, T9, T10, T10Low, T10High}

InitTime ==
    /\ archive = [blocks |-> <<ZeroBlock>>, len |-> HEADER_SIZE]
    /\ build = "release"
    /\ upstream = [pos |-> 0, avail |-> <<>>, eof |-> FALSE]
    /\ raw = NewRaw
    /\ flat = NewFlat
    /\ deep = NewDeep
    /\ handles = {}
    /\ log = NoLog
    /\ pax = NoPax
    /\ \E value \in TimeInputs : time = [value |-> value, res |-> None]
    /\ lock = NoLock

\* the call parse_from(value)
Parse ==
    /\ ~IsSome(time.res)
    /\ time' = [time EXCEPT !.res = Some(parse_from(time.value))]
    /\ UNCHANGED <<archive, build, upstream, raw, flat, deep, handles, log, pax, lock>>

NextTime == Parse

SpecTime == InitTime /\ [][NextTime]_vars

(***************************************************************************)
(* Properties                                                              *)
(***************************************************************************)
Epochs == 1..Len(log.outer)

RECURSIVE SumLen(_)
SumLen(got) == IF got = <<>> THEN 0 ELSE SLen(Head(got)) + SumLen(Tail(got))

\* the first terminal result has just been returned
JustFinished ==
    /\ log.term = 1
    /\ \/ log.last.op = "outer" /\ log.last.r = log.fin
       \/ log.last.op = "inner" /\ log.last.r = "Panic"

\* the consumer has read every entry to the end of its stream and has
\* discarded no payload
Disciplined == \A k \in Epochs : log.outer[k].lost = 0 /\ log.outer[k].st # "open"

Outcome ==
    [outer |-> [k \in Epochs |-> [entry |-> log.outer[k].entry,
                                  got |-> log.outer[k].got,
                                  st |-> log.outer[k].st]],
     fin |-> log.fin]

\* C1 (chunk-invariance): a run of decode_tar read entry by entry to its first
\* terminal result gives the same entries, the same payload for each entry and
\* the same ending as the run over the same archive delivered as one chunk.
C1_ChunkInvariance == (JustFinished /\ Disciplined) => Outcome = ExpectedDrained

\* C2 (payload conservation): an entry's stream that has reported its end has
\* yielded exactly as many bytes as the size resolved for the entry.
C2_PayloadConservation ==
    \A k \in Epochs :
        log.outer[k].st = "End" => SumLen(log.outer[k].got) = log.outer[k].entry.size

C3_Witness ==
    /\ Len(log.raw) >= 3
    /\ log.raw[1].i = "Header" /\ log.raw[1].size = 2
    /\ log.raw[2].i = "Chunk" /\ SLen(log.raw[2].bytes) = 2
    /\ log.raw[3].i = "Header"

\* C4 (ordering): the outer stream yields the entries in the order of the
\* archive; once it has yielded a later entry, nothing more is yielded as
\* payload of an earlier one; and an outer poll made while the current entry
\* has payload left returns not-ready and draws nothing from the coalescer.
C4_Step ==
    /\ \A j \in 1..Len(log'.outer) : \A i \in 1..(j - 1) :
          log'.outer[i].entry.at < log'.outer[j].entry.at
    /\ \A k \in 1..(Len(log.outer) - 1) : log'.outer[k].got = log.outer[k].got
    /\ (log'.last.op = "outer" /\ deep.bytes > 0) =>
          /\ log'.last.r = "NotReady"
          /\ UNCHANGED <<upstream, raw, flat, deep>>

C4_Ordering == [][C4_Step]_vars

\* the second entry is current with payload left, the first has yielded its
\* payload, bytes are waiting at the source, and the outer poll returned not-ready
C4_Witness ==
    /\ Len(log.outer) = 2
    /\ log.outer[1].got # <<>>
    /\ deep.bytes > 0
    /\ upstream.avail # <<>>
    /\ log.last.op = "outer" /\ log.last.r = "NotReady"

\* C5 (epoch exclusion): a poll of the stream of an entry that is no longer the
\* current one returns the end of the stream, draws nothing from the coalescer
\* and leaves the position and the payload left as they were.
C5_Step ==
    (log'.last.op = "inner" /\ log'.last.h < deep.position) =>
        /\ log'.last.r = "End"
        /\ UNCHANGED <<upstream, raw, flat, deep>>

C5_EpochExclusion == [][C5_Step]_vars

\* a stale handle polled while the current entry has payload left and bytes
\* are waiting at the source
C5_Witness ==
    /\ log.last.op = "inner" /\ log.last.h < deep.position
    /\ log.last.r = "End"
    /\ deep.bytes > 0
    /\ upstream.avail # <<>>

\* C6 (stale drop): the drop of the handle of an entry that is no longer the
\* current one leaves the payload left of the current entry as it was: payload
\* of an entry is discarded unread only by the drop of that entry's own handle.
C6_StaleDropHarmless ==
    \A k \in Epochs : log.outer[k].lost \in {0, k}

\* the slice lies in the payload of the member whose header is at offset at
InPayload(b, at) ==
    /\ b.lo >= at + HEADER_SIZE
    /\ b.hi <= at + HEADER_SIZE + BlockAt(archive, at).size

C7_Witness ==
    \E k \in Epochs :
        /\ log.outer[k].lost = k
        /\ k < Len(log.outer)
        /\ log.outer[k + 1].entry.at > log.outer[k].entry.at
        /\ log.outer[k + 1].st = "End" /\ log.outer[k + 1].got # <<>>

\* the decoder fed the whole input in one call
PaxWhole == decode(NewPaxDecoder, pax.input, build)

\* C8 (PAX split-resilience): however the bytes are split over calls of
\* decode(), the calls succeed or fail as the single call over all the bytes
\* does, and leave the same attributes.
C8_SplitResilience ==
    (pax.input # <<>> /\ (pax.rest = <<>> \/ pax.res # "Ok")) =>
        /\ pax.res = PaxWhole.res
        /\ pax.dec.attributes = PaxWhole.dec.attributes

\* C9 (PAX over GNU): an entry preceded by a GNU long-name entry and by a PAX
\* entry with a path record has the PAX path, in either order; likewise the
\* PAX linkpath wins over a GNU long-link.
C9_PaxBeatsGnu ==
    \A i \in 1..Len(log.entries) : \A j \in 1..Len(ExpectedSupplied) :
        LET e == log.entries[i]
            r == ExpectedSupplied[j]
        IN
        (e.at = r.at /\ IsSome(r.pax)) =>
            /\ (IsSome(r.gnu_name) /\ IsSome(r.pax.v.path)) =>
                  e.path_bytes = r.pax.v.path.v
            /\ (IsSome(r.gnu_link) /\ IsSome(r.pax.v.link_path)) =>
                  e.link_bytes = r.pax.v.link_path

\* C10 (fallback): an entry preceded by a GNU long-name entry and by a PAX
\* entry without a path record has the GNU long name, in either order; the
\* header's own path is used only when neither supplies one.
C10_Fallback ==
    \A i \in 1..Len(log.entries) : \A j \in 1..Len(ExpectedSupplied) :
        LET e == log.entries[i]
            r == ExpectedSupplied[j]
            paxPath == IsSome(r.pax) /\ IsSome(r.pax.v.path)
        IN
        e.at = r.at =>
            /\ (IsSome(r.gnu_name) /\ IsSome(r.pax) /\ ~paxPath) =>
                  e.path_bytes = r.gnu_name.v
            /\ (~IsSome(r.gnu_name) /\ ~paxPath) => e.path_bytes = r.name
            /\ e.path_bytes = r.name => (~IsSome(r.gnu_name) /\ ~paxPath)

\* C11 (atime and ctime): an entry has the atime of the PAX entry before its
\* header when that has an atime record, else the atime of its header when the
\* header is of the GNU variant, else none; likewise its ctime.
C11_TimePriority ==
    \A i \in 1..Len(log.entries) : \A j \in 1..Len(ExpectedSupplied) :
        LET e == log.entries[i]
            r == ExpectedSupplied[j]
        IN
        e.at = r.at =>
            /\ e.atime = IF IsSome(r.pax) /\ IsSome(r.pax.v.atime) THEN r.pax.v.atime
                         ELSE IF r.gnu THEN gnu_time(r.atime)
                         ELSE None
            /\ e.ctime = IF IsSome(r.pax) /\ IsSome(r.pax.v.ctime) THEN r.pax.v.ctime
                         ELSE IF r.gnu THEN gnu_time(r.ctime)
                         ELSE None

\* the kind of pseudo-entry a header announces, "" for a real header
PseudoKind(blk) ==
    IF as_gnu(blk) /\ is_gnu_longname(blk) THEN "L"
    ELSE IF as_gnu(blk) /\ is_gnu_longlink(blk) THEN "K"
    ELSE IF as_ustar(blk) /\ is_pax_local_extensions(blk) THEN "X"
    ELSE ""

\* the offsets of the pseudo-entry headers of the archive that repeat a kind
\* already met since the last real header
RECURSIVE Repeats(_, _, _)
Repeats(a, i, kinds) ==
    IF ~Complete(a, i) THEN {}
    ELSE IF a.blocks[i].k = "zero" THEN Repeats(a, i + 1, kinds)
    ELSE IF a.blocks[i].k # "hdr" THEN {}
    ELSE LET kind == PseudoKind(a.blocks[i])
             n == NextIdx(i, a.blocks[i].size)
         IN
         IF kind = "" THEN Repeats(a, n, {})
         ELSE (IF kind \in kinds THEN {(i - 1) * HEADER_SIZE} ELSE {})
              \cup Repeats(a, n, kinds \cup {kind})

\* C12 (duplicate pseudo-entries): once the coalescer has read the header of a
\* second GNU long-name (or long-link, or PAX) entry before one real header,
\* it has failed with a Format error and emits no entry for that header.
C12_DuplicatePolicy ==
    \A i \in 1..Len(log.raw) :
        (log.raw[i].i = "Header" /\ log.raw[i].at \in Repeats(archive, 1, {})) =>
            /\ IsSome(log.flatfin) /\ log.flatfin.v.r = "Format"
            /\ \A j \in 1..Len(log.entries) : log.entries[j].at < log.raw[i].at

\* the offsets at which a member of the archive starts or the last one ends
RECURSIVE Boundaries(_, _)
Boundaries(a, i) ==
    {(i - 1) * HEADER_SIZE}
    \cup IF i > Len(a.blocks) THEN {}
         ELSE IF a.blocks[i].k = "hdr"
         THEN Boundaries(a, NextIdx(i, a.blocks[i].size))
         ELSE Boundaries(a, i + 1)

C13_Witness ==
    /\ IsSome(log.rawfin)
    /\ log.rawfin.v.r = "UnexpectedEof"
    /\ log.rawfin.v.buffered > 0

\* the offsets of the all-zero blocks that stand where a header is expected
ZeroAt(a) ==
    { z \in Boundaries(a, 1) :
        z < Len(a.blocks) * HEADER_SIZE /\ BlockAt(a, z).k = "zero" }

\* C14 (zero blocks): an archive of zero blocks only gives no entry and no
\* error; the stream ends only when the source has ended and all its bytes are
\* drawn; and when it has ended, every entry of the archive that lies after a
\* zero block has been emitted.
C14_ZeroBlocksNotTerminal ==
    /\ (\A i \in 1..Len(archive.blocks) : archive.blocks[i].k = "zero") =>
          /\ log.entries = <<>> /\ log.outer = <<>>
          /\ ~log.err.raw /\ ~log.err.flat
          /\ log.fin \in {"", "End"}
    /\ log.fin = "End" =>
          /\ upstream.eof /\ upstream.avail = <<>>
          /\ \A j \in 1..Len(ExpectedSupplied) :
                (\E z \in ZeroAt(archive) : z < ExpectedSupplied[j].at) =>
                    \E i \in 1..Len(log.entries) :
                        log.entries[i].at = ExpectedSupplied[j].at

\* the stream has ended after the entry that follows two zero blocks
C14_Witness ==
    /\ log.fin = "End"
    /\ archive.blocks[1].k = "zero"
    /\ Len(log.outer) = 1
    /\ log.outer[1].entry.at = 2 * HEADER_SIZE

\* C15 (zero blocks are no errors): a poll whose last item drawn from the
\* framer is an EmptyHeader, the framer itself reporting neither end nor
\* error, does not return an error.
C15_Step ==
    (/\ Len(log'.raw) > Len(log.raw)
     /\ log'.raw[Len(log'.raw)].i = "EmptyHeader"
     /\ log'.rawfin = log.rawfin) =>
        log'.last.r \in {"Item", "End", "NotReady"}

C15_ZeroNeverError == [][C15_Step]_vars

\* C16 (dangling pseudo-entry): a poll that leaves the coalescer in a state
\* other than Clean after it has drawn an EmptyHeader or the end of the stream
\* from the framer returns UnexpectedEof; and no entry is ever emitted but for
\* the real headers of the archive that come before the first pseudo-entry
\* left dangling.
C16_Step ==
    /\ (/\ flat'.state.s # "Clean"
        /\ \/ /\ Len(log'.raw) > Len(log.raw)
              /\ log'.raw[Len(log'.raw)].i = "EmptyHeader"
              /\ log'.rawfin = log.rawfin
           \/ /\ log'.rawfin # log.rawfin
              /\ log'.rawfin.v.r = "End") =>
          log'.last.r = "UnexpectedEof"
    /\ \A i \in 1..Len(log'.entries) :
          \E j \in 1..Len(ExpectedSupplied) :
              log'.entries[i].at = ExpectedSupplied[j].at

C16_DanglingPseudoEntry == [][C16_Step]_vars

\* the errors a poll returns
ErrTags == {"UnexpectedEof", "IoError", "Format"}

\* C17 (errors are terminal): after a poll of the framer has returned an
\* error the framer emits no item; after a poll of the coalescer has, the
\* coalescer emits no entry and no chunk; after a poll of the outer stream
\* has, the outer stream yields no entry; after a poll of an entry's stream
\* has, that stream yields no chunk.
C17_Step ==
    /\ log.err.raw => log'.raw = log.raw
    /\ log.err.flat =>
          /\ log'.entries = log.entries
          /\ \A k \in Epochs : log'.outer[k].got = log.outer[k].got
    /\ log.fin \in ErrTags => Len(log'.outer) = Len(log.outer)
    /\ \A k \in Epochs :
          log.outer[k].st \in ErrTags => log'.outer[k].got = log.outer[k].got

C17_ErrorsTerminate == [][C17_Step]_vars

(***************************************************************************)
(* A timestamp as it is written: white space, the digits of the seconds,   *)
(* and after a '.' the digits of the fraction.                             *)
(***************************************************************************)
\* the input without its leading white space
RECURSIVE Body(_)
Body(value) ==
    IF value # <<>> /\ IsWhitespace(Head(value)) THEN Body(Tail(value)) ELSE value

AllDigits(digits) == \A i \in 1..Len(digits) : IsDigit(digits[i])

HasDot(body) == \E i \in 1..Len(body) : body[i] = DOT
DotAt(body) == CHOOSE i \in 1..Len(body) : body[i] = DOT /\ \A j \in 1..(i - 1) : body[j] # DOT
IntPart(body) == IF HasDot(body) THEN Sub(body, 0, DotAt(body) - 1) ELSE body
FracPart(body) == IF HasDot(body) THEN Sub(body, DotAt(body), Len(body)) ELSE <<>>

\* the number a sequence of digits spells
RECURSIVE DecVal(_)
DecVal(digits) ==
    IF digits = <<>> THEN 0
    ELSE DecVal(Sub(digits, 0, Len(digits) - 1)) * 10 + (digits[Len(digits)] - CH0)

RECURSIVE Pow10(_)
Pow10(n) == IF n = 0 THEN 1 ELSE 10 * Pow10(n - 1)

\* digits, or digits '.' digits
WellFormed(body) == AllDigits(IntPart(body)) /\ AllDigits(FracPart(body))

\* C18 (fraction scaling): a timestamp with a fraction of k digits, k in 1..9,
\* parses to its seconds and to the fraction times 10^(9-k) nanoseconds.
C18_FractionScaling ==
    IsSome(time.res) =>
        LET body == Body(time.value) IN
        (/\ HasDot(body) /\ WellFormed(body)
         /\ Len(FracPart(body)) \in 1..9) =>
            time.res.v = Ok(FileTime(DecVal(IntPart(body)),
                                     DecVal(FracPart(body))
                                         * Pow10(9 - Len(FracPart(body)))))

\* C19 (fraction truncation): a timestamp with a fraction of more than 9
\* digits parses to its seconds and to the first 9 digits of the fraction as
\* nanoseconds; the nanoseconds of every result are below 10^9.
C19_FractionTruncation ==
    IsSome(time.res) =>
        LET body == Body(time.value) IN
        /\ time.res.v.ok => (time.res.v.v[2] >= 0 /\ time.res.v.v[2] < Pow10(9))
        /\ (HasDot(body) /\ WellFormed(body) /\ Len(FracPart(body)) > 9) =>
              time.res.v = Ok(FileTime(DecVal(IntPart(body)),
                                       DecVal(Sub(FracPart(body), 0, 9))))

\* C20 (invalid characters): an input that is not digits or digits '.' digits
\* after its leading white space is rejected with InvalidChar; an input of
\* white space and digits only parses to the number with no nanoseconds.
C20_InvalidChar ==
    IsSome(time.res) =>
        LET body == Body(time.value) IN
        /\ ~WellFormed(body) => time.res.v = Err("InvalidChar")
        /\ AllDigits(body) => time.res.v = Ok(FileTime(DecVal(body), 0))

(***************************************************************************)
(* PAX records.                                                            *)
(***************************************************************************)
\* a record body framed by its length prefix and its newline
Frame(body) ==
    Decimal(IF Len(body) + 3 < 10 THEN Len(body) + 3 ELSE Len(body) + 4)
        \o <<SP>> \o body \o <<LF>>

\* "k", "", "pat", "paths": keys outside the ten the decoder knows
UnknownKeys == {<<107>>, <<>>, <<112, 97, 116>>, K_path \o <<115>>}
\* "", "v", "x=y"
SomeValues == {<<>>, <<118>>, <<120, EQ, 121>>}

HasSp(b) == \E i \in 1..Len(b) : b[i] = SP
SpAt(b) == CHOOSE i \in 1..Len(b) : b[i] = SP /\ \A j \in 1..(i - 1) : b[j] # SP
Prefix(b) == Sub(b, 0, SpAt(b) - 1)
Declared(b) == DecVal(Prefix(b))
HasLength(b) ==
    HasSp(b) /\ Prefix(b) # <<>> /\ Len(Prefix(b)) <= 9 /\ AllDigits(Prefix(b))
FirstBody(b) == Sub(b, SpAt(b), Declared(b) - 1)
Framed(b) ==
    /\ HasLength(b)
    /\ Declared(b) > SpAt(b)
    /\ Declared(b) <= Len(b)
    /\ b[Declared(b)] = LF
HasEq(body) == \E i \in 1..Len(body) : body[i] = EQ
EqAt(body) == CHOOSE i \in 1..Len(body) : body[i] = EQ /\ \A j \in 1..(i - 1) : body[j] # EQ
KeyOf(body) == Sub(body, 0, EqAt(body) - 1)
ValOf(body) == Sub(body, EqAt(body), Len(body))
\* the bytes given to decode() so far
Fed == Len(pax.input) - Len(pax.rest)

\* C22: once a record mtime=, ctime= or atime= whose value the timestamp
\* parser rejects has been given to decode(), the decoding has failed with
\* InvalidTimestamp; once a record size=, uid= or gid= whose value is not a
\* decimal number has been given, it has failed.
C22_BadValueErrors ==
    LET b == pax.input
        body == FirstBody(b)
    IN
    (Framed(b) /\ HasEq(body) /\ Fed >= Declared(b)) =>
        /\ (KeyOf(body) \in {K_mtime, K_ctime, K_atime} /\ ~parse_from(ValOf(body)).ok)
               => pax.res = "InvalidTimestamp"
        /\ (KeyOf(body) \in {K_size, K_uid, K_gid}
               /\ ~(ValOf(body) # <<>> /\ AllDigits(ValOf(body))))
               => pax.res # "Ok"

Ascii(b) == \A i \in 1..Len(b) : b[i] < 128

\* C23: for a record of declared length L >= 1, once its length prefix, the
\* space after it and at least L bytes from its start have been given to
\* decode(), the decoding has failed with ExpectedEol if the byte at offset
\* L - 1 is not a newline, and with ExpectedEq if it is and the bytes between
\* the space and the newline hold no '='; for every L, the ones no larger than
\* the number of digits of the prefix plus one included.
C23_Framing ==
    LET b == pax.input IN
    (/\ Ascii(b)
     /\ HasLength(b)
     /\ Declared(b) >= 1
     /\ Declared(b) <= Len(b)
     /\ Fed >= Declared(b)
     /\ Fed >= SpAt(b)) =>
        /\ b[Declared(b)] # LF => pax.res = "ExpectedEol"
        /\ (b[Declared(b)] = LF /\ ~HasEq(FirstBody(b))) => pax.res = "ExpectedEq"

\* digit strings compared as the numbers they spell
RECURSIVE NoLeadingZeros(_)
NoLeadingZeros(digits) ==
    IF Len(digits) > 1 /\ Head(digits) = CH0 THEN NoLeadingZeros(Tail(digits)) ELSE digits

RECURSIVE LexGreater(_, _)
LexGreater(a, b) ==
    IF a = <<>> THEN FALSE
    ELSE IF Head(a) # Head(b) THEN Head(a) > Head(b)
    ELSE LexGreater(Tail(a), Tail(b))

SpellsMoreThan(digits, n) ==
    LET a == NoLeadingZeros(digits)
        b == Decimal(n)
    IN Len(a) > Len(b) \/ (Len(a) = Len(b) /\ LexGreater(a, b))

\* C24: once a length prefix and the space after it have been given to
\* decode(), the decoding has failed with Overflow if the prefix is a decimal
\* number larger than the largest word, and with InvalidSizeChar if the prefix
\* holds a byte that is not a digit.
C24_PrefixErrors ==
    LET b == pax.input IN
    (Ascii(b) /\ HasSp(b) /\ Prefix(b) # <<>> /\ Fed >= SpAt(b)) =>
        /\ (AllDigits(Prefix(b)) /\ SpellsMoreThan(Prefix(b), WordMod - 1))
               => pax.res = "Overflow"
        /\ ~AllDigits(Prefix(b)) => pax.res = "InvalidSizeChar"

(***************************************************************************)
(* The coalescer's items, the handles and the lock.                        *)
(***************************************************************************)
\* the header at an offset of the archive is a pseudo-entry's
PseudoAt(at) == PseudoKind(BlockAt(archive, at)) # ""

\* the chunks of the framer's history that follow a real header, joined as
\* the coalescer's history joins them
RECURSIVE PassedOn(_, _, _)
PassedOn(l, i, real) ==
    IF i > Len(l) THEN <<>>
    ELSE IF l[i].i = "Header" THEN PassedOn(l, i + 1, ~PseudoAt(l[i].at))
    ELSE IF l[i].i = "Chunk" /\ real THEN <<l[i].bytes>> \o PassedOn(l, i + 1, real)
    ELSE PassedOn(l, i + 1, real)

\* C25: the coalescer emits no Entry for a pseudo-entry's header and no Chunk
\* for its payload; the chunks it emits are the framer's chunks of the real
\* entries, unchanged and in order; and every byte an entry's stream yields
\* is one of them.
C25_PseudoPayloadHidden ==
    /\ \A i \in 1..Len(log.entries) : ~PseudoAt(log.entries[i].at)
    /\ log.chunks = PassedOn(log.raw, 1, TRUE)
    /\ \A k \in Epochs : \A j \in 1..Len(log.outer[k].got) :
          \E c \in 1..Len(log.chunks) :
              /\ log.chunks[c].lo <= log.outer[k].got[j].lo
              /\ log.outer[k].got[j].hi <= log.chunks[c].hi

\* the payload of a pseudo-entry has been consumed, and then the payload of
\* the real entry after it has been emitted
C25_Witness ==
    /\ \E i \in 2..Len(log.raw) :
          log.raw[i].i = "Chunk" /\ log.raw[i - 1].i = "Header" /\ PseudoAt(log.raw[i - 1].at)
    /\ log.chunks # <<>>
    /\ \E k \in Epochs : log.outer[k].got # <<>>

\* the header item before item i of the framer's history, 0 if there is none
RECURSIVE HeaderBefore(_, _)
HeaderBefore(l, i) ==
    IF i <= 1 THEN 0
    ELSE IF l[i - 1].i = "Header" THEN i - 1
    ELSE HeaderBefore(l, i - 1)

\* the real header at an offset is not directly preceded by pseudo-entries
Unpreceded(at) ==
    \E i \in 1..Len(log.raw) :
        /\ log.raw[i].i = "Header" /\ log.raw[i].at = at
        /\ LET h == HeaderBefore(log.raw, i) IN h = 0 \/ ~PseudoAt(log.raw[h].at)

C27_ChunksNonEmpty ==
    /\ ~log.empty
    /\ \A i \in 1..(Len(log.raw) - 1) :
          log.raw[i].i = "Chunk" => log.raw[i + 1].i # "Chunk"

\* C28: the drop of a handle sets the shared remaining-byte counter to 0 and
\* does nothing else: the position, the byte source, the framer (its block
\* counters, its header buffer and its tail) and the coalescer are as they
\* were, and no layer has emitted an item.
C28_Step ==
    log'.last.op = "drop" =>
        /\ deep' = [deep EXCEPT !.bytes = 0]
        /\ UNCHANGED <<upstream, raw, flat>>
        /\ log'.raw = log.raw /\ log'.empty = log.empty
        /\ log'.entries = log.entries /\ log'.chunks = log.chunks

C28_DropIsNotARead == [][C28_Step]_vars

\* a handle has just been dropped while its entry had payload left, a chunk
\* was waiting at the source and the framer held a tail
C28_Witness ==
    /\ log.last.op = "drop"
    /\ \E k \in Epochs : log.outer[k].lost # 0
    /\ deep.bytes = 0
    /\ upstream.avail # <<>>
    /\ raw.in_entry > 0

\* the step is an outer poll that yields an entry
Yields == Len(log'.outer) = Len(log.outer) + 1

\* C29: the position is 0 at first; a step in which the outer stream yields an
\* entry raises it by exactly 1 and hands out a handle whose epoch is the new
\* position, larger than every epoch handed out before; any other step leaves
\* the position as it was and hands out no handle.  So no two handles have the
\* same epoch and at most one has the epoch of the current position.
C29_Step ==
    /\ Yields =>
          /\ log'.last.op = "outer" /\ log'.last.r = "Item"
          /\ deep'.position = deep.position + 1
          /\ handles' = handles \cup {deep'.position}
          /\ \A h \in handles : h < deep'.position
          /\ \A k \in Epochs : k < deep'.position
    /\ ~Yields =>
          /\ ~(log'.last.op = "outer" /\ log'.last.r = "Item")
          /\ deep'.position = deep.position
          /\ handles' \subseteq handles

C29_EpochsIncrease ==
    /\ deep.position = 0 /\ handles = {}
    /\ [][C29_Step]_vars

\* the handles of the first two entries are alive and the second is current
C29_Witness ==
    /\ handles = {1, 2}
    /\ deep.position = 2
    /\ log.last.op = "outer" /\ log.last.r = "Item"

\* thread t is between taking the lock and giving it back
InCall(t) == lock.pc[t] \in {"holding", "done"}

C30_Exclusive ==
    /\ lock.holder = 0 => \A t \in Threads : ~InCall(t)
    /\ lock.holder # 0 => \A t \in Threads : InCall(t) <=> t = lock.holder

C30_Step ==
    <<raw, flat, deep, handles>>' # <<raw, flat, deep, handles>> =>
        /\ lock.holder # 0
        /\ lock.pc[lock.holder] = "holding"
        /\ lock'.pc[lock.holder] = "done"
        /\ lock'.holder = lock.holder

\* the body of every call that holds the lock comes to its end
BodiesEnd == \A t \in Threads : []<>(lock.pc[t] # "holding")

Releases ==
    \/ log'.last.op = "drop" /\ log'.last.h = deep.position
    \/ /\ log'.last.op = "inner"
       /\ log'.last.h = deep.position
       /\ log'.last.r = "End"
C31_Step ==
    (log.parked = "payload" /\ ~log.notified /\ Releases) => log'.notified
C31_OuterNotified == [][C31_Step]_vars

\* C36: whatever bytes are given to decode(), in whatever split, every call
\* returns success or a ParseError: no call aborts.
C36_DecodeTotal == pax.res # "Panic"

\* C34: the chunk that a poll of an entry's stream draws from the coalescer is
\* no longer than the payload the nested stream counts as remaining.
C34_Step ==
    log'.last.op = "inner" => SumLen(log'.chunks) - SumLen(log.chunks) <= deep.bytes
C34_NoUnderflow == [][C34_Step]_vars

\* C35: a poll of an entry's stream draws no entry from the coalescer.
C35_Step ==
    log'.last.op = "inner" => log'.entries = log.entries
C35_NoEntryInPayload == [][C35_Step]_vars

\* C37: the coalescer holds a GNU accumulation buffer exactly when its state is
\* InGnuLongName or InGnuLongLink (none in InPaxExtensions, none in Clean), the
\* commit match of poll_next_header would take one of its four arms, and no
\* unreachable!() arm and no unwrap of an absent buffer has been reached.
C37_StateBufferConsistent ==
    /\ IsSome(flat.buffer) <=> flat.state.s \in {"InGnuLongName", "InGnuLongLink"}
    /\ IsSome(Commit(flat))
    /\ ~log.unreachable

\* the coalescer waits inside a PAX entry that followed a GNU long-name entry,
\* whose buffer was taken and committed, and has returned not-ready there
C37_Witness ==
    /\ flat.state.s = "InPaxExtensions"
    /\ ~IsSome(flat.buffer)
    /\ IsSome(flat.attributes.path)
    /\ log.last.r = "NotReady"

Delivered ==
    { [upstream EXCEPT !.pos = e, !.avail = <<Slice(upstream.pos, e)>>] :
        e \in { c \in Cuts(archive) :
                   c > upstream.pos /\ c - upstream.pos <= MaxChunk } }
    \cup IF upstream.pos = archive.len THEN {[upstream EXCEPT !.eof = TRUE]} ELSE {}

\* a poll that returns not-ready leaves the decoder where the same poll, made
\* once the source has moved on, does what it would have done had the first
\* poll never been made: same result, same state, same items emitted
Resumes(Poll(_, _)) ==
    LET p == Poll(Sys, deep) IN
    p.r.t = "NotReady" =>
        \A u \in Delivered :
            Poll([p.s EXCEPT !.upstream = u], p.d) = Poll([Sys EXCEPT !.upstream = u], deep)

\* C32 (suspension transparency): wherever the byte source is not ready, in a
\* header, a payload, a padding, a pseudo-entry or the skip loop of the outer
\* stream, a poll that returns not-ready loses and duplicates nothing: polling
\* again after the next chunk (or the end) gives the result, the state and the
\* emitted entries and payload that the poll gives when made only then.
C32_SuspensionTransparent ==
    (upstream.avail = <<>> /\ ~upstream.eof /\ ~deep.poisoned) =>
        /\ Resumes(poll_next_entry)
        /\ Resumes(LAMBDA s, d : poll_entry_data(s, d, d.position))

\* a poll has returned not-ready with part of a header buffered, inside a PAX
\* entry
C32_Witness ==
    /\ log.last.r = "NotReady"
    /\ raw.buffer # <<>>
    /\ flat.state.s = "InPaxExtensions"
    /\ upstream.avail = <<>> /\ ~upstream.eof

====
